---- MODULE Spec2Model ----
(***************************************************************************)
(* A model of the TAC control-flow graph of src/src/tac_cfg.py (TACGraph,  *)
(* TACBasicBlock, TACOp) over the value lattice of src/src/lattice.py and  *)
(* the Variables of src/src/memtypes.py.                                   *)
(*                                                                         *)
(* A graph is a record G = [blocks, blk, root]: blocks is the list         *)
(* TACGraph.blocks of block identities, blk maps an identity to the        *)
(* block's fields and root is TACGraph.root (None is 0).  preds and succs   *)
(* are Python lists that add_edge keeps free of duplicates and of which    *)
(* the code only asks membership; they are sets here.  An exception is a   *)
(* result with raised # "none" that carries the state mutated so far.      *)
(***************************************************************************)
EXTENDS Integers, Sequences, FiniteSets, TLC

VARIABLES blocks, blk, root, last, edits, frame,
          evm_ops, self_ops, self_stack, self_stack_vars, store,
          block_entry_stack, pops, converted

\* the conversion of a block
dvars == <<evm_ops, self_ops, self_stack, self_stack_vars, store,
           block_entry_stack, pops, converted>>
\* frame is the position of a call of clone_ambiguous_jump_blocks or of
\* merge_duplicate_blocks in its loops, where the loops are taken step by
\* step
vars == <<blocks, blk, root, last, edits, frame, dvars>>

(***************************************************************************)
(* Bounds of the model.                                                    *)
(***************************************************************************)
\* identities available for blocks (initial blocks, clones, merged blocks)
MaxBlocks == 8
\* changes made from outside the graph in one behaviour: value updates by the
\* dataflow analysis and direct calls of add_edge, remove_edge, add_block,
\* remove_block; edits counts the changes still to be made
MaxEdits == 1
\* the same, in the behaviours of merge_duplicate_blocks
MaxMergeEdits == 2
\* the same, in the behaviours of clone_ambiguous_jump_blocks
MaxCloneEdits == 3
\* EVM ops of a converted block
MaxEvmOps == 3
\* Variables of a stack the calls start from, and calls made on it
MaxStack == 3
MaxStackCalls == 2

BlockIds == 1..MaxBlocks
None == 0

\* entry pcs of the blocks of the disassembled program; block at e spans e..e+1
InitEntries == <<0, 2, 4>>

(***************************************************************************)
(* lattice.py: SubsetLatticeElement.  value is TOP_SYMBOL or a set.         *)
(***************************************************************************)
Top == [top |-> TRUE, elems |-> {}]
Bottom == [top |-> FALSE, elems |-> {}]
Fin(S) == [top |-> FALSE, elems |-> S]

is_top(e) == e.top
is_bottom(e) == ~e.top /\ e.elems = {}
\* __len__: Top has length 0
ssle_len(e) == IF is_top(e) THEN 0 ELSE Cardinality(e.elems)
\* __iter__ raises TypeError when len(self) == 0
iter_raises(e) == ssle_len(e) = 0

(***************************************************************************)
(* memtypes.py: Variable.  A Variable is [value, def_sites].                *)
(***************************************************************************)
Variable(v, ds) == [value |-> v, def_sites |-> ds]
is_unconstrained(x) == is_top(x.value)
is_finite(x) == ~(is_unconstrained(x) \/ is_bottom(x.value))
is_const(x) == is_finite(x) /\ ssle_len(x.value) = 1
is_true(x) == IF is_unconstrained(x) \/ is_bottom(x.value) THEN FALSE
              ELSE \A c \in x.value.elems : c # 0
is_false(x) == IF is_unconstrained(x) \/ is_bottom(x.value) THEN FALSE
               ELSE \A c \in x.value.elems : c = 0
\* def_sites.is_const: exactly one definition site
ds_is_const(x) == ~is_top(x.def_sites) /\ ssle_len(x.def_sites) = 1

(***************************************************************************)
(* tac_cfg.py: TACOp and the opcode table.                                 *)
(***************************************************************************)
TACOp(opcode, args, pc, block) ==
  [opcode |-> opcode, args |-> args, pc |-> pc, block |-> block]

halts(opcode) == opcode \in {"STOP", "THROW"}

convert_jump_to_throw(op) ==
  IF op.opcode \notin {"JUMP", "JUMPI"} THEN op
  ELSE IF op.opcode = "JUMP" THEN TACOp("THROW", <<>>, op.pc, op.block)
  ELSE TACOp("THROWI", <<op.args[2]>>, op.pc, op.block)

(***************************************************************************)
(* Blocks and graphs.                                                      *)
(***************************************************************************)
NoBlock == [entry |-> -1, exit |-> -1, tac_ops |-> <<>>, preds |-> {},
            succs |-> {}, has_unresolved_jump |-> FALSE]

TACBasicBlock(entry_pc, exit_pc, tac_ops) ==
  [entry |-> entry_pc, exit |-> exit_pc, tac_ops |-> tac_ops, preds |-> {},
   succs |-> {}, has_unresolved_jump |-> FALSE]

Graph == [blocks |-> blocks, blk |-> blk, root |-> root]

ToSet(s) == {s[i] : i \in DOMAIN s}
InSeq(x, s) == \E i \in DOMAIN s : s[i] = x
\* list.remove(x): the first occurrence
RECURSIVE ListRemove(_, _)
ListRemove(s, x) ==
  IF s = <<>> THEN <<>>
  ELSE IF Head(s) = x THEN Tail(s)
  ELSE <<Head(s)>> \o ListRemove(Tail(s), x)
Front(s) == SubSeq(s, 1, Len(s) - 1)

\* a set of identities as the list in ascending order
RECURSIVE Ascending(_)
Ascending(S) ==
  IF S = {} THEN <<>>
  ELSE LET m == CHOOSE x \in S : \A y \in S : x <= y
       IN <<m>> \o Ascending(S \ {m})

add_edge(G, head, tail) ==
  [G EXCEPT !.blk = [@ EXCEPT ![head].succs = @ \cup {tail},
                              ![tail].preds = @ \cup {head}]]

remove_edge(G, head, tail) ==
  [G EXCEPT !.blk = [@ EXCEPT ![head].succs = @ \ {tail},
                              ![tail].preds = @ \ {head}]]

RECURSIVE remove_edges_from(_, _, _)
remove_edges_from(G, ps, block) ==
  IF ps = <<>> THEN G
  ELSE remove_edges_from(remove_edge(G, Head(ps), block), Tail(ps), block)

RECURSIVE remove_edges_to(_, _, _)
remove_edges_to(G, block, ss) ==
  IF ss = <<>> THEN G
  ELSE remove_edges_to(remove_edge(G, block, Head(ss)), block, Tail(ss))

\* for p in list(block.preds) and for s in list(block.succs)
remove_pred_edges(G, block) ==
  remove_edges_from(G, Ascending(G.blk[block].preds), block)
remove_succ_edges(G, block) ==
  remove_edges_to(G, block, Ascending(G.blk[block].succs))

\* a faulty remove_block, which leaves the incident edges in place
remove_block_keep_edges(G, block) ==
  [G EXCEPT !.root = IF block = @ THEN None ELSE @,
            !.blocks = ListRemove(@, block)]

\* remove_block on a block of the graph; the removed block is garbage and
\* its identity is free again
remove_block(G, block) ==
  [remove_succ_edges(
     remove_pred_edges([G EXCEPT !.root = IF block = @ THEN None ELSE @],
                       block),
     block)
   EXCEPT !.blocks = ListRemove(@, block), !.blk[block] = NoBlock]

add_block(G, block) ==
  IF InSeq(block, G.blocks) THEN G
  ELSE [G EXCEPT !.blocks = Append(@, block)]

get_blocks_by_pc(G, pc) ==
  SelectSeq(G.blocks,
            LAMBDA b : G.blk[b].entry <= pc /\ pc <= G.blk[b].exit)

RECURSIVE ops_at(_, _, _)
ops_at(G, bs, pc) ==
  IF bs = <<>> THEN <<>>
  ELSE SelectSeq(G.blk[Head(bs)].tac_ops, LAMBDA op : op.pc = pc)
       \o ops_at(G, Tail(bs), pc)

get_ops_by_pc(G, pc) == ops_at(G, get_blocks_by_pc(G, pc), pc)

\* a faulty is_valid_jump_dest, which accepts any pc that holds an op
is_valid_jump_dest_any_op(G, pc) == Len(get_ops_by_pc(G, pc)) # 0

is_valid_jump_dest(G, pc) ==
  LET ops == get_ops_by_pc(G, pc)
  IN Len(ops) # 0 /\ \E i \in DOMAIN ops : ops[i].opcode = "JUMPDEST"

(***************************************************************************)
(* TACBasicBlock.hook_up_jumps.                                            *)
(***************************************************************************)
\* handle_valid_dests: the mapping from each valid destination of d to the
\* blocks of the ops at that pc (d is neither Top nor empty here)
handle_valid_dests(G, d) ==
  [v \in {w \in d.value.elems : is_valid_jump_dest(G, w)} |->
     LET ops == get_ops_by_pc(G, v) IN {ops[i].block : i \in DOMAIN ops}]

\* the branch taken on the final op: what becomes of tac_ops, the
\* fallthrough blocks, whether the destinations are evaluated, and the
\* unresolved flag
hook_branch(G, b, mutate_jumps) ==
  LET self == G.blk[b]
      ops == self.tac_ops
      final_op == ops[Len(ops)]
  IN IF final_op.opcode = "JUMPI" THEN
       LET dest == final_op.args[1]
           cond == final_op.args[2]
       IN IF mutate_jumps /\ is_false(cond) THEN
            [ops |-> Front(ops), final_op |-> final_op,
             fallthrough |-> ToSet(get_blocks_by_pc(G, final_op.pc + 1)),
             eval |-> FALSE, dest |-> dest, unresolved |-> FALSE]
          ELSE IF mutate_jumps /\ is_true(cond) THEN
            LET jump == TACOp("JUMP", <<dest>>, final_op.pc, final_op.block)
            IN [ops |-> Append(Front(ops), jump), final_op |-> jump,
                fallthrough |-> {}, eval |-> TRUE, dest |-> dest,
                unresolved |-> FALSE]
          ELSE
            [ops |-> ops, final_op |-> final_op,
             fallthrough |-> ToSet(get_blocks_by_pc(G, final_op.pc + 1)),
             eval |-> TRUE, dest |-> dest,
             unresolved |-> is_unconstrained(dest)]
     ELSE IF final_op.opcode = "JUMP" THEN
       LET dest == final_op.args[1]
       IN [ops |-> ops, final_op |-> final_op, fallthrough |-> {},
           eval |-> TRUE, dest |-> dest,
           unresolved |-> is_unconstrained(dest)]
     ELSE
       [ops |-> ops, final_op |-> final_op,
        fallthrough |-> IF ~halts(final_op.opcode)
                        THEN ToSet(get_blocks_by_pc(G, self.exit + 1))
                        ELSE {},
        eval |-> FALSE, dest |-> Variable(Top, Top), unresolved |-> FALSE]

\* to_add: of the candidate blocks, those that are successors already, if any
prefer_existing(block_list, succs) ==
  IF block_list \cap succs # {} THEN block_list \cap succs ELSE block_list

\* a faulty edge update, which removes every old successor that is not new
stale_succs_all(G, b, jumpdests, new_succs) ==
  {s \in G.blk[b].succs : s \notin new_succs}

\* the old successors that the edge update removes
stale_succs(G, b, jumpdests, new_succs) ==
  {s \in G.blk[b].succs :
     s \notin new_succs /\ G.blk[s].entry \in DOMAIN jumpdests}

RECURSIVE add_edges_to(_, _, _)
add_edges_to(G, block, ss) ==
  IF ss = <<>> THEN G
  ELSE add_edges_to(IF Head(ss) \notin G.blk[block].succs
                    THEN add_edge(G, block, Head(ss)) ELSE G,
                    block, Tail(ss))

\* the edge update: filter the candidates, drop the stale successors, add
\* the new ones
update_succs(G, b, jumpdests0, fallthrough0) ==
  LET succs0 == G.blk[b].succs
      jumpdests == [v \in DOMAIN jumpdests0 |->
                      prefer_existing(jumpdests0[v], succs0)]
      fallthrough == prefer_existing(fallthrough0, succs0)
      new_succs == UNION {jumpdests[v] : v \in DOMAIN jumpdests}
                   \cup fallthrough
      G1 == remove_edges_to(G, b,
              Ascending(stale_succs(G, b, jumpdests, new_succs)))
  IN add_edges_to(G1, b, Ascending(new_succs))

\* the throw conversion, the flag and the edge update, once the
\* destinations have been collected
hook_finish(G, b, generate_throws, br, jumpdests) ==
  LET invalid_jump == br.eval /\ ~is_unconstrained(br.dest)
                      /\ DOMAIN jumpdests = {}
      ops2 == IF generate_throws /\ invalid_jump
              THEN Append(Front(br.ops), convert_jump_to_throw(br.final_op))
              ELSE br.ops
  IN update_succs([G EXCEPT !.blk[b].tac_ops = ops2,
                            !.blk[b].has_unresolved_jump = br.unresolved],
                  b, jumpdests, br.fallthrough)

\* return set(old_succs) != set(self.succs)
hook_result(G, b, G3) ==
  [G |-> G3, ret |-> G.blk[b].succs # G3.blk[b].succs, raised |-> "none"]

\* the call from the branch taken on; G1 holds the mutated tac_ops
hook_from_branch(G, b, generate_throws, br, G1) ==
  IF br.eval /\ ~is_unconstrained(br.dest) /\ iter_raises(br.dest.value)
  THEN \* for v in d, on an empty value set
       [G |-> G1, ret |-> FALSE, raised |-> "TypeError"]
  ELSE hook_result(G, b,
         hook_finish(G1, b, generate_throws, br,
                     IF br.eval /\ ~is_unconstrained(br.dest)
                     THEN handle_valid_dests(G1, br.dest)
                     ELSE << >>))

hook_with_branch(G, b, generate_throws, br) ==
  hook_from_branch(G, b, generate_throws, br,
                   [G EXCEPT !.blk[b].tac_ops = br.ops])

hook_up_jumps_block(G, b, mutate_jumps, generate_throws) ==
  IF G.blk[b].tac_ops = <<>> THEN
    \* self.tac_ops[-1] on an empty list
    [G |-> G, ret |-> FALSE, raised |-> "IndexError"]
  ELSE hook_with_branch(G, b, generate_throws,
                        hook_branch(G, b, mutate_jumps))

\* a faulty TACGraph.hook_up_jumps, which keeps the last block's result
\* only (modified = ... for modified |= ...)
RECURSIVE hook_up_jumps_from_overwrite(_, _, _, _, _)
hook_up_jumps_next_overwrite(r, bs, mutate_jumps, generate_throws, rets) ==
  IF r.raised # "none"
  THEN [G |-> r.G, ret |-> FALSE, raised |-> r.raised, rets |-> rets]
  ELSE hook_up_jumps_from_overwrite(r.G, Tail(bs), mutate_jumps,
                                    generate_throws,
                                    IF r.ret THEN {Head(bs)} ELSE {})

hook_up_jumps_from_overwrite(G, bs, mutate_jumps, generate_throws, rets) ==
  IF bs = <<>> THEN
    [G |-> G, ret |-> rets # {}, raised |-> "none", rets |-> rets]
  ELSE
    hook_up_jumps_next_overwrite(
      hook_up_jumps_block(G, Head(bs), mutate_jumps, generate_throws),
      bs, mutate_jumps, generate_throws, rets)

\* TACGraph.hook_up_jumps: every block in list order; rets collects the
\* blocks whose call returned True
RECURSIVE hook_up_jumps_from(_, _, _, _, _)
\* r is the result of the call on Head(bs): modified |= r.ret, and an
\* exception ends the loop
hook_up_jumps_next(r, bs, mutate_jumps, generate_throws, rets) ==
  IF r.raised # "none"
  THEN [G |-> r.G, ret |-> FALSE, raised |-> r.raised, rets |-> rets]
  ELSE hook_up_jumps_from(r.G, Tail(bs), mutate_jumps, generate_throws,
                          IF r.ret THEN rets \cup {Head(bs)} ELSE rets)

hook_up_jumps_from(G, bs, mutate_jumps, generate_throws, rets) ==
  IF bs = <<>> THEN
    [G |-> G, ret |-> rets # {}, raised |-> "none", rets |-> rets]
  ELSE
    hook_up_jumps_next(
      hook_up_jumps_block(G, Head(bs), mutate_jumps, generate_throws),
      bs, mutate_jumps, generate_throws, rets)

hook_up_jumps(G, mutate_jumps, generate_throws) ==
  hook_up_jumps_from(G, G.blocks, mutate_jumps, generate_throws, {})

(***************************************************************************)
(* TACGraph.transitive_closure and remove_unreachable_code.                *)
(***************************************************************************)
RECURSIVE append_new(_, _, _)
append_new(queue, xs, reached) ==
  IF xs = <<>> THEN queue
  ELSE append_new(IF ~InSeq(Head(xs), queue) /\ ~InSeq(Head(xs), reached)
                  THEN Append(queue, Head(xs)) ELSE queue,
                  Tail(xs), reached)

RECURSIVE origin_queue(_, _, _)
origin_queue(G, origin_addresses, queue) ==
  IF origin_addresses = <<>> THEN queue
  ELSE origin_queue(G, Tail(origin_addresses),
         append_new(queue, get_blocks_by_pc(G, Head(origin_addresses)), <<>>))

\* a faulty closure loop, which never follows a successor
RECURSIVE closure_loop_no_succs(_, _, _)
closure_loop_no_succs(G, queue, reached) ==
  IF queue = <<>> THEN reached
  ELSE closure_loop_no_succs(G, Front(queue),
                             Append(reached, queue[Len(queue)]))

RECURSIVE closure_loop(_, _, _)
closure_loop(G, queue, reached) ==
  IF queue = <<>> THEN reached
  ELSE LET block == queue[Len(queue)]
           reached1 == Append(reached, block)
       IN closure_loop(G,
            append_new(Front(queue), Ascending(G.blk[block].succs), reached1),
            reached1)

transitive_closure(G, origin_addresses) ==
  closure_loop(G, origin_queue(G, origin_addresses, <<>>), <<>>)

RECURSIVE remove_unreached(_, _, _)
remove_unreached(G, bs, reached) ==
  IF bs = <<>> THEN G
  ELSE remove_unreached(IF ~InSeq(Head(bs), reached)
                        THEN remove_block(G, Head(bs)) ELSE G,
                        Tail(bs), reached)

remove_unreachable_code(G, origin_addresses) ==
  remove_unreached(G, G.blocks, transitive_closure(G, origin_addresses))

(***************************************************************************)
(* TACGraph.merge_duplicate_blocks.                                        *)
(***************************************************************************)
\* a for loop over the list s: each step is evaluated, from the state acc the
\* steps before it left, before the next one is entered
RECURSIVE FoldSeq(_, _, _)
FoldSeq(Op(_, _), acc, s) ==
  IF s = <<>> THEN acc
  ELSE CHOOSE r \in {FoldSeq(Op, a, Tail(s)) : a \in {Op(acc, Head(s))}} : TRUE

Range(n) == [i \in 1..n |-> i]

\* the free identities, in ascending order
FreeIds(G) == Ascending(BlockIds \ ToSet(G.blocks))

\* a faulty copy, whose ops still belong to the block copied
deepcopy_keeping_block(block, id) == block

\* TACBasicBlock.__deepcopy__: the fields are copied and every op of the
\* copy belongs to the copy
deepcopy(block, id) ==
  [block EXCEPT !.tac_ops = [i \in DOMAIN @ |-> [@[i] EXCEPT !.block = id]]]

\* SubsetLatticeElement.join and the join of two Variables
ssle_join(a, b) ==
  IF is_top(a) \/ is_top(b) THEN Top ELSE Fin(a.elems \cup b.elems)

var_join(x, y) ==
  Variable(ssle_join(x.value, y.value), ssle_join(x.def_sites, y.def_sites))

\* a faulty blocks_equal, which compares the predecessors whatever
\* ignore_preds says
blocks_equal_comparing_preds(G, a, b, ignore_preds, ignore_succs) ==
  /\ G.blk[a].entry = G.blk[b].entry
  /\ G.blk[a].preds = G.blk[b].preds
  /\ (ignore_succs \/ G.blk[a].succs = G.blk[b].succs)

blocks_equal(G, a, b, ignore_preds, ignore_succs) ==
  /\ G.blk[a].entry = G.blk[b].entry
  /\ (ignore_preds \/ G.blk[a].preds = G.blk[b].preds)
  /\ (ignore_succs \/ G.blk[a].succs = G.blk[b].succs)

\* a block joins the first group whose first member it equals
place_in_group(G, groups, block, ignore_preds, ignore_succs) ==
  LET hits == {j \in DOMAIN groups :
                 blocks_equal(G, block, groups[j][1], ignore_preds,
                              ignore_succs)}
  IN IF hits = {} THEN Append(groups, <<block>>)
     ELSE LET j == CHOOSE x \in hits : \A y \in hits : x <= y
          IN [groups EXCEPT ![j] = Append(@, block)]

duplicate_groups(G, ignore_preds, ignore_succs) ==
  SelectSeq(FoldSeq(LAMBDA gs, b : place_in_group(G, gs, b, ignore_preds,
                                                  ignore_succs),
                    <<>>, G.blocks),
            LAMBDA g : Len(g) > 1)

\* the operands of the merged block's final jump after hook_up_stack_vars on
\* the joined entry stack: the join of the members' operands
joined_ops(G, group) ==
  LET ops == G.blk[group[1]].tac_ops
      n == Len(ops)
      same == {b \in ToSet(group) :
                 /\ Len(G.blk[b].tac_ops) = n
                 /\ G.blk[b].tac_ops[n].opcode = ops[n].opcode}
      arg(i) == FoldSeq(LAMBDA x, b : var_join(x, G.blk[b].tac_ops[n].args[i]),
                        ops[n].args[i], Ascending(same))
  IN IF n = 0 THEN ops
     ELSE [ops EXCEPT ![n].args = [i \in DOMAIN @ |-> arg(i)]]

\* r is the result of new_block.hook_up_jumps(); the log keeps, for each
\* group, what was computed from its members, the new block as the rewiring
\* of the edges leaves it (linked) and as the merge of the group leaves it
merged_result(R, new_block, computed, linked, r) ==
  [G |-> r.G, raised |-> r.raised, full |-> FALSE,
   merged |-> R.merged \cup {new_block},
   log |-> Append(R.log, [new_block |-> new_block, computed |-> computed,
                          linked |-> linked,
                          blocks |-> r.G.blocks,
                          block |-> r.G.blk[new_block]])]

\* the local hook-ups of the new block, once the group is replaced in G5
merge_hook_up(R, new_block, computed, G5) ==
  merged_result(R, new_block, computed, G5.blk[new_block],
                hook_up_jumps_block(G5, new_block, FALSE, FALSE))

\* a faulty merge, which leaves the group in the graph
merge_group_kept(R, group) == R

\* one group is replaced by one new block
merge_group(R, group) ==
  IF R.raised # "none" \/ R.full THEN R
  ELSE IF FreeIds(R.G) = <<>> THEN [R EXCEPT !.full = TRUE]
  ELSE
    LET G == R.G
        new_block == Head(FreeIds(G))
        members == ToSet(group)
        has_unresolved_jump == \E b \in members : G.blk[b].has_unresolved_jump
        preds == UNION {G.blk[b].preds : b \in members}
        succs == UNION {G.blk[b].succs : b \in members}
        copy == deepcopy([G.blk[group[1]] EXCEPT !.tac_ops =
                                                   joined_ops(G, group)],
                         new_block)
        G1 == [G EXCEPT !.blk[new_block] =
                 [copy EXCEPT !.preds = preds, !.succs = succs,
                              !.has_unresolved_jump = has_unresolved_jump]]
        G2 == add_block(G1, new_block)
        G3 == FoldSeq(LAMBDA g, pred :
                        FoldSeq(LAMBDA h, b : remove_edge(h, pred, b),
                                add_edge(g, pred, new_block), group),
                      G2, Ascending(preds))
        G4 == FoldSeq(LAMBDA g, succ :
                        FoldSeq(LAMBDA h, b : remove_edge(h, b, succ),
                                add_edge(g, new_block, succ), group),
                      G3, Ascending(succs))
        G5 == FoldSeq(LAMBDA g, b : remove_block(g, b), G4, group)
    IN merge_hook_up(R, new_block,
                     [group |-> group, preds |-> preds, succs |-> succs,
                      has_unresolved_jump |-> has_unresolved_jump],
                     G5)

RECURSIVE merge_passes(_, _, _)
\* the next pass of the while loop, unless the last one was cut short
merge_again(R1, ignore_preds, ignore_succs) ==
  IF R1.raised # "none" \/ R1.full THEN R1
  ELSE merge_passes(R1, ignore_preds, ignore_succs)

\* one pass: the groups found are merged in order
merge_pass(R, groups, ignore_preds, ignore_succs) ==
  IF groups = <<>> THEN R
  ELSE merge_again(FoldSeq(merge_group, R, groups), ignore_preds,
                   ignore_succs)

merge_passes(R, ignore_preds, ignore_succs) ==
  merge_pass(R, duplicate_groups(R.G, ignore_preds, ignore_succs),
             ignore_preds, ignore_succs)

merge_duplicate_blocks(G, ignore_preds, ignore_succs) ==
  merge_passes([G |-> G, raised |-> "none", full |-> FALSE, merged |-> {},
                log |-> <<>>],
               ignore_preds, ignore_succs)

(***************************************************************************)
(* TACGraph.clone_ambiguous_jump_blocks.                                   *)
(***************************************************************************)
\* the block ends in a jump whose destination is to be split on
splits_on(G, block) ==
  /\ Len(G.blk[block].tac_ops) # 0
  /\ LET final_op == G.blk[block].tac_ops[Len(G.blk[block].tac_ops)]
     IN /\ final_op.opcode \in {"JUMP", "JUMPI"}
        /\ LET dests == final_op.args[1]
           IN ~(\/ is_const(dests)
                \/ ds_is_const(dests)
                \/ (is_top(dests.value) /\ is_top(dests.def_sites)))

\* the walk back along single predecessors
RECURSIVE walk_chain(_, _, _)
walk_chain(G, chain, curr_block) ==
  IF Cardinality(G.blk[curr_block].preds) = 1 THEN
    LET p == CHOOSE x \in G.blk[curr_block].preds : TRUE
    IN IF ~InSeq(p, chain) THEN walk_chain(G, Append(chain, p), p)
       ELSE [chain |-> chain, curr_block |-> p, cycle |-> TRUE]
  ELSE [chain |-> chain, curr_block |-> curr_block, cycle |-> FALSE]

\* a faulty unlinking, which leaves every copied head all its predecessors
unlink_heads_not(G, chain, chain_preds, ids) == G

\* remove links between preds and chain heads
unlink_heads(G, chain, chain_preds, ids) ==
  FoldSeq(LAMBDA g, k :
            FoldSeq(LAMBDA h, p : remove_edge(h, p, ids[k][Len(chain)]),
                    g, chain_preds),
          G, Range(Len(chain_preds)))

\* hook up each pred to a chain individually
link_preds(G, chain, chain_preds, ids) ==
  FoldSeq(LAMBDA g, k :
            remove_edge(add_edge(g, chain_preds[k], ids[k][Len(chain)]),
                        chain_preds[k], chain[Len(chain)]),
          G, Range(Len(chain_preds)))

\* the chain is replaced by one copy per predecessor of its head;
\* ids[k][i] is the identity of the copy of chain[i] for chain_preds[k]
split_chain(G, chain, chain_preds, ids) ==
  LET m == Len(chain)
      K == Len(chain_preds)
      chain_succs == Ascending(G.blk[chain[1]].succs)
      G0 == [G EXCEPT !.blk = [b \in BlockIds |->
               IF \E k \in 1..K, i \in 1..m : ids[k][i] = b
               THEN LET k == CHOOSE kk \in 1..K : \E i \in 1..m : ids[kk][i] = b
                        i == CHOOSE ii \in 1..m : ids[k][ii] = b
                    IN deepcopy(G.blk[chain[i]], b)
               ELSE G.blk[b]]]
      G1 == unlink_heads(G0, chain, chain_preds, ids)
      G2 == link_preds(G1, chain, chain_preds, ids)
      \* connect the chains up within themselves
      G3 == FoldSeq(LAMBDA g, k :
                      FoldSeq(LAMBDA h, i :
                                remove_edge(
                                  remove_edge(
                                    add_edge(h, ids[k][i + 1], ids[k][i]),
                                    ids[k][i + 1], chain[i]),
                                  chain[i + 1], ids[k][i]),
                              g, Range(m - 1)),
                    G2, Range(K))
      \* connect up chain successors properly
      G4 == FoldSeq(LAMBDA g, s : remove_edge(g, chain[1], s), G3,
                    chain_succs)
      G5 == FoldSeq(LAMBDA g, k :
                      FoldSeq(LAMBDA h, i :
                                FoldSeq(LAMBDA f, s : add_edge(f, ids[k][i], s),
                                        h, Ascending(h.blk[ids[k][i]].succs)),
                              g, Range(m)),
                    G4, Range(K))
      \* remove the old chain and add the new ones
      G6 == FoldSeq(LAMBDA g, k :
                      FoldSeq(LAMBDA h, i : add_block(h, ids[k][i]),
                              g, Range(m)),
                    G5, Range(K))
  IN FoldSeq(LAMBDA g, b : remove_block(g, b), G6, chain)

\* the state of the loops once the chain found from block is split into G1;
\* the log keeps every split and the graph as the split leaves it
clone_split(R, block, chain, chain_preds, ids, G1) ==
  [G |-> G1, full |-> FALSE,
   skip |-> R.skip \cup ToSet(chain)
              \cup {ids[k][j] : k \in DOMAIN ids, j \in DOMAIN chain},
   splits |-> R.splits + 1,
   log |-> Append(R.log, [block |-> block, chain |-> chain,
                          chain_preds |-> chain_preds, ids |-> ids,
                          blocks |-> G1.blocks, blk |-> G1.blk])]

\* a faulty loop body, which goes on to split the chains that end in a
\* cycle or at a block with a predecessor in the chain
clone_block_splitting_all(R, block) ==
  LET G == R.G
  IN IF block \in R.skip \/ ~splits_on(G, block) THEN R
     ELSE
       LET w == walk_chain(G, <<block>>, block)
           chain == w.chain
           chain_preds == Ascending(G.blk[w.curr_block].preds)
           m == Len(chain)
           K == Len(chain_preds)
       IN IF K = 0
          THEN R
          ELSE IF Len(FreeIds(G)) < K * m THEN [R EXCEPT !.full = TRUE]
          ELSE
            LET ids == [k \in 1..K |->
                          [j \in 1..m |-> FreeIds(G)[(k - 1) * m + j]]]
            IN clone_split(R, block, chain, chain_preds, ids,
                           split_chain(G, chain, chain_preds, ids))

\* the body of the for loop over self.blocks, for one block: the block is
\* passed over, or the chain found from it is split
clone_block(R, block) ==
  LET G == R.G
  IN IF block \in R.skip \/ ~splits_on(G, block) THEN R
     ELSE
       LET w == walk_chain(G, <<block>>, block)
           chain == w.chain
           chain_preds == Ascending(G.blk[w.curr_block].preds)
           m == Len(chain)
           K == Len(chain_preds)
       IN IF w.cycle \/ K = 0
             \/ (\E j \in 1..K : InSeq(chain_preds[j], chain))
          THEN R
          ELSE IF Len(FreeIds(G)) < K * m THEN [R EXCEPT !.full = TRUE]
          ELSE
            LET ids == [k \in 1..K |->
                          [j \in 1..m |-> FreeIds(G)[(k - 1) * m + j]]]
            IN clone_split(R, block, chain, chain_preds, ids,
                           split_chain(G, chain, chain_preds, ids))

\* the for loop over self.blocks, by index into the list as it is mutated,
\* inside the while loop; modified is set by a split
RECURSIVE clone_loop(_, _, _)
clone_loop(R, i, modified) ==
  IF R.full THEN R
  ELSE IF i > Len(R.G.blocks) THEN
    IF modified THEN clone_loop(R, 1, FALSE) ELSE R
  ELSE
    LET R1 == clone_block(R, R.G.blocks[i])
    IN clone_loop(R1, i + 1, modified \/ R1.splits > R.splits)

clone_ambiguous_jump_blocks(G) ==
  clone_loop([G |-> G, full |-> FALSE, skip |-> {}, splits |-> 0,
              log |-> <<>>], 1, FALSE)

(***************************************************************************)
(* The programs: what TACGraph.__init__ is given, and the graph it builds. *)
(***************************************************************************)
\* a jump operand taken from the entry stack: nothing is known of it yet
StackVar == Variable(Top, Top)
\* a jump operand pushed in block i itself: the constant c
Const(c, i) == Variable(Fin({c}), Fin({InitEntries[i]}))

JUMP(dest, pc, i) == TACOp("JUMP", <<dest>>, pc, i)
JUMPI(dest, cond, pc, i) == TACOp("JUMPI", <<dest, cond>>, pc, i)

\* the final TAC ops an initial block may have (none: <<>>); the first block
\* may jump to a constant destination, the others jump on stack operands
FinalOps(i) ==
  LET pc == InitEntries[i] + 1
  IN IF i = 1
     THEN {<<>>, <<TACOp("STOP", <<>>, pc, i)>>,
           <<JUMP(StackVar, pc, i)>>, <<JUMP(Const(4, i), pc, i)>>,
           <<JUMPI(StackVar, StackVar, pc, i)>>,
           <<JUMPI(Const(4, i), StackVar, pc, i)>>}
     ELSE IF i = 2
     THEN {<<>>, <<JUMP(StackVar, pc, i)>>,
           <<JUMPI(StackVar, StackVar, pc, i)>>}
     ELSE {<<TACOp("STOP", <<>>, pc, i)>>, <<JUMP(StackVar, pc, i)>>}

\* the TAC ops of initial block i: a JUMPDEST at the entry of every block
\* but the first, the CONST of the PUSH where the first block jumps to a
\* constant, then the final op; NOP if there is none at all
InitOps(i, final) ==
  LET e == InitEntries[i]
      pushes == final # <<>> /\ final[1].args # <<>>
                /\ is_const(final[1].args[1])
      head == IF i # 1 THEN <<TACOp("JUMPDEST", <<>>, e, i)>>
              ELSE IF pushes THEN <<TACOp("CONST", <<>>, e, i)>>
              ELSE <<>>
  IN IF head \o final = <<>> THEN <<TACOp("NOP", <<>>, e, i)>>
     ELSE head \o final

\* TACGraph.__init__: the converted blocks, the root, then hook_up_jumps();
\* block b of the program has entry entries[b] and the TAC ops ops[b]
TACGraphOf(entries, ops) ==
  LET n == Len(entries)
      G0 == [blocks |-> [i \in 1..n |-> i],
             blk |-> [b \in BlockIds |->
                        IF b <= n
                        THEN TACBasicBlock(entries[b], entries[b] + 1, ops[b])
                        ELSE NoBlock],
             root |-> IF \E b \in 1..n : entries[b] = 0
                      THEN CHOOSE b \in 1..n : entries[b] = 0 ELSE None]
  IN hook_up_jumps(G0, FALSE, FALSE).G

TACGraph(finals) ==
  TACGraphOf(InitEntries,
             [b \in DOMAIN InitEntries |-> InitOps(b, finals[b])])

\* the programs of chain splitting: the blocks at 0 and at 2 each push a
\* destination and lead, the first by a jump and the second by falling
\* through, to a chain of chain_len blocks that ends in a JUMP to the
\* destination pushed
ChainEntries(chain_len) == [b \in 1..(2 + chain_len) |-> 2 * (b - 1)]

ChainOps(chain_len) ==
  [b \in 1..(2 + chain_len) |->
     LET e == 2 * (b - 1)
     IN IF b = 1
        THEN <<TACOp("JUMPDEST", <<>>, e, b), TACOp("CONST", <<>>, e, b),
               TACOp("CONST", <<>>, e, b), JUMP(Const(4, 1), e + 1, b)>>
        ELSE IF b = 2
        THEN <<TACOp("JUMPDEST", <<>>, e, b), TACOp("CONST", <<>>, e, b)>>
        ELSE IF b < 2 + chain_len
        THEN <<TACOp("JUMPDEST", <<>>, e, b)>>
        ELSE <<TACOp("JUMPDEST", <<>>, e, b), JUMP(StackVar, e + 1, b)>>]

(***************************************************************************)
(* memtypes.py: Variables as objects, MetaVariable, MemLoc, VariableStack. *)
(* An object is [cls, name, id, value, payload].  The Variables made by    *)
(* Destackifier.__new_var are the ones whose value set is assigned later   *)
(* (op.lhs.values = ...) while the stack and the args of later ops hold    *)
(* the same object: they carry an identity id >= 0 and their value set is  *)
(* store[id].  Every other object keeps the value set it was made with.    *)
(***************************************************************************)
\* Variable.SIZE, the bytes of a word: 32 in the program, fewer here
SIZE == 2
CARDINALITY == 2 ^ (SIZE * 8)
MAX_SIZE == 1024

NoVar ==
  [cls |-> "None", name |-> "", id |-> -1, value |-> Bottom, payload |-> -1]

\* Variable(values, name): the values are reduced modulo CARDINALITY
VariableOf(values, name) ==
  [cls |-> "Variable", name |-> name, id |-> -1,
   value |-> Fin({v % CARDINALITY : v \in values}), payload |-> -1]

\* Variable.top(name) as the object with identity id
VariableTop(name, id) ==
  [cls |-> "Variable", name |-> name, id |-> id, value |-> Top,
   payload |-> -1]

MetaVariable(name, payload) ==
  [cls |-> "MetaVariable", name |-> name, id |-> -1, value |-> Top,
   payload |-> payload]

MemLoc(space_id, size, address) ==
  [cls |-> "MemLoc", space_id |-> space_id, size |-> size,
   address |-> address]

VariableStack(state) == [value |-> state, empty_pops |-> 0]

new_metavar(n) == MetaVariable("S" \o ToString(n), n)

\* a faulty peek, which does not count the pops of the empty stack
peek_uncounted(s, n) ==
  IF n >= Len(s.value)
  THEN new_metavar(n - Len(s.value))
  ELSE s.value[Len(s.value) - n]

peek(s, n) ==
  IF n >= Len(s.value)
  THEN new_metavar(n - Len(s.value) + s.empty_pops)
  ELSE s.value[Len(s.value) - n]

\* a faulty push, which grows a full stack
push_unbounded(s, var) == [s EXCEPT !.value = Append(@, var)]

push(s, var) ==
  IF Len(s.value) < MAX_SIZE THEN [s EXCEPT !.value = Append(@, var)] ELSE s

\* pop without the count of the pops of an empty stack
pop_uncounted(s) ==
  IF Len(s.value) > 0
  THEN [stack |-> [s EXCEPT !.value = SubSeq(@, 1, Len(@) - 1)],
        ret |-> s.value[Len(s.value)], empty |-> FALSE]
  ELSE [stack |-> s, ret |-> new_metavar(s.empty_pops), empty |-> TRUE]

\* pop: the stack after the call, the Variable returned, and whether the
\* call found the stack empty
pop(s) ==
  IF Len(s.value) > 0
  THEN [stack |-> [s EXCEPT !.value = SubSeq(@, 1, Len(@) - 1)],
        ret |-> s.value[Len(s.value)], empty |-> FALSE]
  ELSE [stack |-> [s EXCEPT !.empty_pops = @ + 1],
        ret |-> new_metavar((s.empty_pops + 1) - 1), empty |-> TRUE]

push_many(s, vs) == FoldSeq(push, s, vs)

\* pop_many: the stack after the calls, the items popped (first popped
\* first) and the pop calls made
RECURSIVE pop_many(_, _)
pop_many(s, n) ==
  IF n = 0 THEN [stack |-> s, items |-> <<>>, calls |-> <<>>]
  ELSE LET p == pop(s)
           r == pop_many(p.stack, n - 1)
       IN [stack |-> r.stack, items |-> <<p.ret>> \o r.items,
           calls |-> <<[ret |-> p.ret, empty |-> p.empty]>> \o r.calls]

reversed(s) == [i \in 1..Len(s) |-> s[Len(s) + 1 - i]]

\* a faulty dup, which duplicates the top whatever n is
dup_top(s, n) ==
  LET p == pop_many(s, n)
      duplicated == <<p.items[1]>> \o p.items
  IN [stack |-> push_many(p.stack, reversed(duplicated)), calls |-> p.calls]

dup(s, n) ==
  LET p == pop_many(s, n)
      duplicated == <<p.items[n]>> \o p.items
  IN [stack |-> push_many(p.stack, reversed(duplicated)), calls |-> p.calls]

swap(s, n) ==
  LET p == pop_many(s, n)
      swapped == <<p.items[n]>> \o SubSeq(p.items, 2, n - 1) \o <<p.items[1]>>
  IN [stack |-> push_many(p.stack, reversed(swapped)), calls |-> p.calls]

(***************************************************************************)
(* The opcodes of the blocks converted here, with the number of words each *)
(* pops and pushes.                                                        *)
(***************************************************************************)
\* OpCode.pop
opcode_pop ==
  [PUSH1 |-> 0, POP |-> 1, DUP1 |-> 1, SWAP1 |-> 2, ADD |-> 2, SUB |-> 2,
   MLOAD |-> 1, SLOAD |-> 1, MSTORE |-> 2, MSTORE8 |-> 2, SSTORE |-> 2]

\* OpCode.push, of the opcodes that generate an instruction
opcode_push ==
  [PUSH1 |-> 1, ADD |-> 1, SUB |-> 1, MLOAD |-> 1, SLOAD |-> 1, MSTORE |-> 0,
   MSTORE8 |-> 0, SSTORE |-> 0]

is_push(opcode) == opcode = "PUSH1"
is_arithmetic(opcode) == opcode \in {"ADD", "SUB"}

(***************************************************************************)
(* tac_cfg.py: TACArg, TACOp with an lhs, Destackifier.                    *)
(***************************************************************************)
TACArg(var, stack_var) ==
  [cls |-> "TACArg", var |-> var, stack_var |-> stack_var]

from_var(var) ==
  IF var.cls = "MetaVariable" THEN TACArg(NoVar, var) ELSE TACArg(var, NoVar)

\* TACArg.value
arg_value(arg) == IF arg.var = NoVar THEN arg.stack_var ELSE arg.var

TACAssignOp(lhs, opcode, args, pc) ==
  [opcode |-> opcode, lhs |-> lhs, args |-> args, pc |-> pc]

\* a TACOp, which has no lhs
TACOpOf(opcode, args, pc) == TACAssignOp(NoVar, opcode, args, pc)

\* the Destackifier D = [ops, stack, stack_vars] and the pop calls it made
fresh_init ==
  [ops |-> <<>>, stack |-> VariableStack(<<>>), stack_vars |-> 0,
   calls |-> <<>>]

\* a faulty __new_var, which gives every Variable the first name
new_var_unnumbered(D) == VariableTop("V0", D.stack_vars)

new_var(D) == VariableTop("V" \o ToString(D.stack_vars), D.stack_vars)

\* __gen_instruction; MLoc32, MLoc1 and SLoc32 are the MemLocs of the spaces
\* M, M1 and S
gen_instruction(D, op) ==
  LET var == IF opcode_push[op.opcode] = 1 THEN new_var(D) ELSE NoVar
      n == IF is_push(op.opcode) THEN 0
           ELSE IF op.opcode \in {"MLOAD", "SLOAD"} THEN 1
           ELSE IF op.opcode \in {"MSTORE", "MSTORE8", "SSTORE"} THEN 2
           ELSE opcode_pop[op.opcode]
      p == pop_many(D.stack, n)
      args == [i \in 1..Len(p.items) |-> from_var(p.items[i])]
      inst ==
        IF is_push(op.opcode)
        THEN TACAssignOp(var, "CONST",
                         <<TACArg(VariableOf({op.value}, "C"), NoVar)>>, op.pc)
        ELSE IF op.opcode = "MLOAD"
        THEN TACAssignOp(var, op.opcode, <<MemLoc("M", 32, args[1])>>, op.pc)
        ELSE IF op.opcode = "MSTORE"
        THEN TACAssignOp(MemLoc("M", 32, args[1]), op.opcode, Tail(args),
                         op.pc)
        ELSE IF op.opcode = "MSTORE8"
        THEN TACAssignOp(MemLoc("M1", 1, args[1]), op.opcode, Tail(args),
                         op.pc)
        ELSE IF op.opcode = "SLOAD"
        THEN TACAssignOp(var, op.opcode, <<MemLoc("S", 32, args[1])>>, op.pc)
        ELSE IF op.opcode = "SSTORE"
        THEN TACAssignOp(MemLoc("S", 32, args[1]), op.opcode, Tail(args),
                         op.pc)
        ELSE IF var # NoVar
        THEN TACAssignOp(var, op.opcode, args, op.pc)
        ELSE TACOpOf(op.opcode, args, op.pc)
  IN [ops |-> Append(D.ops, inst),
      stack |-> IF var # NoVar THEN push(p.stack, var) ELSE p.stack,
      stack_vars |-> IF var # NoVar THEN D.stack_vars + 1 ELSE D.stack_vars,
      calls |-> D.calls \o p.calls]

\* __handle_evm_op; is_swap and is_dup are SWAP1 and DUP1 here
handle_evm_op(D, op) ==
  LET r == IF op.opcode = "SWAP1" THEN swap(D.stack, opcode_pop[op.opcode])
           ELSE IF op.opcode = "DUP1" THEN dup(D.stack, opcode_pop[op.opcode])
           ELSE pop_many(D.stack, 1)
  IN IF op.opcode \in {"SWAP1", "DUP1", "POP"}
     THEN [D EXCEPT !.stack = r.stack, !.calls = @ \o r.calls]
     ELSE gen_instruction(D, op)

\* convert_block, after its loop over the EVM ops: the ops of the new block
convert_block_ops(D, entry) ==
  IF Len(D.ops) = 0 THEN <<TACOpOf("NOP", <<>>, entry)>> ELSE D.ops

(***************************************************************************)
(* tac_cfg.py: TACBasicBlock.hook_up_stack_vars and apply_operations.      *)
(***************************************************************************)
hook_up_arg(arg, entry_stack) ==
  IF /\ arg.cls = "TACArg"
     /\ arg.stack_var # NoVar
     /\ arg.stack_var.payload < Len(entry_stack.value)
  THEN [arg EXCEPT !.var = peek(entry_stack, arg.stack_var.payload)]
  ELSE arg

hook_up_stack_vars(tac_ops, entry_stack) ==
  [k \in 1..Len(tac_ops) |->
     [tac_ops[k] EXCEPT !.args = [i \in 1..Len(tac_ops[k].args) |->
                                   hook_up_arg(tac_ops[k].args[i],
                                               entry_stack)]]]

\* the value set of a Variable object
values(st, var) == IF var.id >= 0 THEN st[var.id] ELSE var.value

\* the object as the code's properties (is_const, ...) see it
deref(st, var) == [var EXCEPT !.value = values(st, var)]

constant_args(st, op) ==
  \A i \in 1..Len(op.args) : is_const(deref(st, arg_value(op.args[i])))

constrained_args(st, op) ==
  \A i \in 1..Len(op.args) :
    ~is_unconstrained(deref(st, arg_value(op.args[i])))

\* Variable.ADD, Variable.SUB
\* x & y of Python's integers, which are of any size and sign
RECURSIVE bitand(_, _)
bitand(x, y) ==
  IF x = 0 \/ y = 0 THEN 0
  ELSE IF x = -1 THEN y
  ELSE IF y = -1 THEN x
  ELSE (x % 2) * (y % 2) + 2 * bitand(x \div 2, y \div 2)

\* a faulty twos_comp, which reads every word as it is
twos_comp_unsigned(v) == v

\* Variable.twos_comp: the signed reading of a word
twos_comp(v) ==
  IF bitand(v, CARDINALITY \div 2) # 0 THEN v - CARDINALITY ELSE v

\* the number of arguments the class method of Variable named opname takes
arity(opname) == IF opname = "NOT" THEN 1 ELSE 2

\* the arithmetic class methods of Variable, by name; BYTE is for a shift
\* that is not negative
arith(opname, args) ==
  CASE opname = "ADD" -> args[1] + args[2]
    [] opname = "SUB" -> args[1] - args[2]
    [] opname = "NOT" -> -args[1] - 1
    [] opname = "DIV" -> IF args[2] = 0 THEN 0 ELSE args[1] \div args[2]
    [] opname = "MOD" -> IF args[2] = 0 THEN 0 ELSE args[1] % args[2]
    [] opname \in {"SDIV", "SMOD"} ->
         LET abs(v) == IF v < 0 THEN -v ELSE v
             l_val == twos_comp(args[1])
             r_val == twos_comp(args[2])
         IN IF opname = "SDIV"
            THEN LET sign == IF l_val * r_val >= 0 THEN 1 ELSE -1
                 IN IF r_val = 0 THEN 0
                    ELSE sign * (abs(l_val) \div abs(r_val))
            ELSE LET sign == IF l_val >= 0 THEN 1 ELSE -1
                 IN IF args[2] = 0 THEN 0
                    ELSE sign * (abs(l_val) % abs(r_val))
    [] opname = "BYTE" ->
         bitand(args[2] \div 2 ^ ((SIZE - args[1]) * 8), 255)
    [] opname = "SIGNEXTEND" ->
         LET b == args[1]
             v == args[2]
             pos == 8 * (b + 1)
             ones == (SIZE * 8) - pos
             mask == IF ones > 0 THEN (2 ^ ones - 1) * 2 ^ pos ELSE 0
             \* v, a member of a Variable, has no bit beyond the word's
             val == IF pos - 1 < SIZE * 8 /\ bitand(v, 2 ^ (pos - 1)) > 0
                    THEN 1 ELSE 0
             bitor(x, y) == -bitand(-x - 1, -y - 1) - 1
         IN IF val = 0 THEN bitand(v, mask) ELSE bitor(v, -mask - 1)

\* cartesian_map: list(e) iterates e and raises on an element of length 0;
\* product is itertools.product of the elements' member lists
cartesian_map(opname, elements) ==
  LET members == UNION {elements[i].elems : i \in 1..Len(elements)}
      product == {t \in [1..Len(elements) -> members] :
                    \A i \in 1..Len(elements) : t[i] \in elements[i].elems}
  IN IF \E i \in 1..Len(elements) : is_top(elements[i])
     THEN [raised |-> "none", result |-> Top]
     ELSE IF \E i \in 1..Len(elements) : iter_raises(elements[i])
     THEN [raised |-> "TypeError", result |-> Bottom]
     \* f(*args) with too few or too many arguments
     ELSE IF Len(elements) # arity(opname)
     THEN [raised |-> "TypeError", result |-> Bottom]
     \* v >> n with n negative
     ELSE IF opname = "BYTE" /\ \E t \in product : SIZE - t[1] < 0
     THEN [raised |-> "ValueError", result |-> Bottom]
     ELSE [raised |-> "none",
           result |-> Fin({arith(opname, t) : t \in product})]

\* a faulty arith_op, which keeps the results as they are
arith_op_unreduced(opname, elements) ==
  LET c == cartesian_map(opname, elements)
  IN IF c.raised # "none" THEN c
     ELSE IF iter_raises(c.result)
     THEN [raised |-> "TypeError", result |-> Bottom]
     ELSE [raised |-> "none", result |-> c.result]

\* arith_op: Variable(values=result) iterates the result of cartesian_map
\* and reduces its members modulo CARDINALITY
arith_op(opname, elements) ==
  LET c == cartesian_map(opname, elements)
  IN IF c.raised # "none" THEN c
     ELSE IF iter_raises(c.result)
     THEN [raised |-> "TypeError", result |-> Bottom]
     ELSE [raised |-> "none",
           result |-> Fin({v % CARDINALITY : v \in c.result.elems})]

\* the setter of Variable.values applied to the object lhs
set_values(acc, lhs, vals) ==
  IF iter_raises(vals) THEN [acc EXCEPT !.raised = "TypeError"]
  ELSE [acc EXCEPT !.store[lhs.id] = Fin({v % CARDINALITY : v \in vals.elems})]

\* the condition under which apply_operations folds an arithmetic op
folds(st, op, use_sets) ==
  constant_args(st, op) \/ (constrained_args(st, op) /\ use_sets)

\* one iteration of the loop of apply_operations; acc = [store, raised]
apply_operation(acc, op, use_sets) ==
  IF acc.raised # "none" THEN acc
  ELSE IF op.opcode = "CONST"
  THEN set_values(acc, op.lhs, values(acc.store, arg_value(op.args[1])))
  ELSE IF is_arithmetic(op.opcode) /\ folds(acc.store, op, use_sets)
  THEN LET r == arith_op(op.opcode,
                         [i \in 1..Len(op.args) |->
                            values(acc.store, arg_value(op.args[i]))])
       IN IF r.raised # "none" THEN [acc EXCEPT !.raised = r.raised]
          ELSE set_values(acc, op.lhs, r.result)
  ELSE acc

apply_operations(tac_ops, st, use_sets) ==
  FoldSeq(LAMBDA acc, op : apply_operation(acc, op, use_sets),
          [store |-> st, raised |-> "none"], tac_ops)

(***************************************************************************)
(* The state machine: one action per operation of the graph.               *)
(***************************************************************************)
Call(op, b, mj, gt, ret, raised, rets, reached) ==
  [op |-> op, b |-> b, mutate_jumps |-> mj, generate_throws |-> gt,
   ret |-> ret, raised |-> raised, rets |-> rets, reached |-> reached,
   log |-> <<>>, use_sets |-> FALSE]

\* a call on the converted block
CallOn(op, use_sets, raised) ==
  [Call(op, None, FALSE, FALSE, FALSE, raised, {}, <<>>)
     EXCEPT !.use_sets = use_sets]

SetGraph(G) == blocks' = G.blocks /\ blk' = G.blk /\ root' = G.root

\* the state once the graph G is constructed, n changes to come, and no
\* block being converted (a Destackifier after __fresh_init)
\* no call is in its loops
NoFrame ==
  [op |-> "none", i |-> 0, modified |-> FALSE, skip |-> {}, groups |-> <<>>,
   ignore_preds |-> FALSE, ignore_succs |-> FALSE, raised |-> "none"]

Constructed(G, n) ==
  /\ evm_ops = <<>>
  /\ self_ops = fresh_init.ops
  /\ self_stack = fresh_init.stack
  /\ self_stack_vars = fresh_init.stack_vars
  /\ pops = fresh_init.calls
  /\ store = [k \in 0..(MaxEvmOps - 1) |-> Top]
  /\ block_entry_stack = VariableStack(<<>>)
  /\ converted = FALSE
  /\ blocks = G.blocks
  /\ blk = G.blk
  /\ root = G.root
  /\ last = Call("init", None, FALSE, FALSE, FALSE, "none", {}, <<>>)
  /\ edits = n
  /\ frame = NoFrame

Init ==
  \E f1 \in FinalOps(1), f2 \in FinalOps(2), f3 \in FinalOps(3) :
    Constructed(TACGraph(<<f1, f2, f3>>), MaxEdits)

\* the values the dataflow analysis gives a jump destination
EnvDests ==
  {Variable(Top, Top), Variable(Top, Fin({0, 2})), Variable(Bottom, Fin({0})),
   Variable(Fin({1}), Fin({0})), Variable(Fin({2}), Fin({0})),
   Variable(Fin({4}), Fin({0})), Variable(Fin({2, 4}), Fin({0, 2})),
   Variable(Fin({1, 2}), Fin({0, 2})), Variable(Fin({2, 4}), Fin({0}))}

\* the values the dataflow analysis gives a jump condition
EnvConds ==
  {Variable(Top, Top), Variable(Fin({0}), Fin({0})),
   Variable(Fin({1}), Fin({0}))}

\* hook_up_stack_vars and apply_operations give an operand of the final
\* jump of block b a new value
DataflowRefine(b, i, x) ==
  /\ UNCHANGED <<frame, dvars>>
  /\ edits > 0
  /\ InSeq(b, blocks)
  /\ blk[b].tac_ops # <<>>
  /\ LET n == Len(blk[b].tac_ops)
         op == blk[b].tac_ops[n]
     IN /\ op.opcode \in {"JUMP", "JUMPI"}
        /\ i \in DOMAIN op.args
        /\ x \in (IF i = 1 THEN EnvDests ELSE EnvConds)
        /\ op.args[i] # x
        /\ blk' = [blk EXCEPT ![b].tac_ops[n].args[i] = x]
  /\ edits' = edits - 1
  /\ last' = Call("dataflow", None, FALSE, FALSE, FALSE, "none", {}, <<>>)
  /\ UNCHANGED <<blocks, root>>

HookUpJumpsBlock(b, mj, gt) ==
  /\ UNCHANGED <<frame, dvars>>
  /\ InSeq(b, blocks)
  /\ LET r == hook_up_jumps_block(Graph, b, mj, gt)
     IN /\ SetGraph(r.G)
        /\ last' = Call("hook_up_jumps_block", b, mj, gt, r.ret, r.raised,
                        {}, <<>>)
  /\ UNCHANGED edits

HookUpJumps(mj, gt) ==
  /\ UNCHANGED <<frame, dvars>>
  /\ LET r == hook_up_jumps(Graph, mj, gt)
     IN /\ SetGraph(r.G)
        /\ last' = Call("hook_up_jumps", None, mj, gt, r.ret, r.raised,
                        r.rets, <<>>)
  /\ UNCHANGED edits

AddEdge(head, tail) ==
  /\ UNCHANGED <<frame, dvars>>
  /\ edits > 0
  /\ InSeq(head, blocks) /\ InSeq(tail, blocks)
  /\ SetGraph(add_edge(Graph, head, tail))
  /\ edits' = edits - 1
  /\ last' = Call("add_edge", None, FALSE, FALSE, FALSE, "none", {}, <<>>)

RemoveEdge(head, tail) ==
  /\ UNCHANGED <<frame, dvars>>
  /\ edits > 0
  /\ InSeq(head, blocks) /\ InSeq(tail, blocks)
  /\ SetGraph(remove_edge(Graph, head, tail))
  /\ edits' = edits - 1
  /\ last' = Call("remove_edge", None, FALSE, FALSE, FALSE, "none", {}, <<>>)

RemoveBlock(b) ==
  /\ UNCHANGED <<frame, dvars>>
  /\ edits > 0
  /\ InSeq(b, blocks)
  /\ SetGraph(remove_block(Graph, b))
  /\ edits' = edits - 1
  /\ last' = Call("remove_block", None, FALSE, FALSE, FALSE, "none", {}, <<>>)

\* the origin addresses remove_unreachable_code is called with
OriginChoices == {<<0>>, <<2>>, <<0, 4>>}

RemoveUnreachableCode(origin_addresses) ==
  /\ UNCHANGED <<frame, dvars>>
  /\ SetGraph(remove_unreachable_code(Graph, origin_addresses))
  /\ last' = Call("remove_unreachable_code", None, FALSE, FALSE, FALSE,
                  "none", ToSet(origin_addresses),
                  transitive_closure(Graph, origin_addresses))
  /\ UNCHANGED edits

\* add_block of a newly constructed block (no edges yet) for the code at e
AddBlock(e) ==
  /\ UNCHANGED <<frame, dvars>>
  /\ edits > 0
  /\ FreeIds(Graph) # <<>>
  /\ LET b == Head(FreeIds(Graph))
         new == TACBasicBlock(e, e + 1, <<TACOp("JUMPDEST", <<>>, e, b),
                                          TACOp("STOP", <<>>, e + 1, b)>>)
     IN SetGraph(add_block([Graph EXCEPT !.blk[b] = new], b))
  /\ edits' = edits - 1
  /\ last' = Call("add_block", None, FALSE, FALSE, FALSE, "none", {}, <<>>)

MergeDuplicateBlocks(ignore_preds, ignore_succs) ==
  /\ UNCHANGED <<frame, dvars>>
  /\ LET r == merge_duplicate_blocks(Graph, ignore_preds, ignore_succs)
     IN /\ ~r.full
        /\ SetGraph(r.G)
        /\ last' = [Call("merge_duplicate_blocks", None, ignore_preds,
                         ignore_succs, FALSE, r.raised, r.merged, <<>>)
                      EXCEPT !.log = r.log]
  /\ UNCHANGED edits

CloneAmbiguousJumpBlocks ==
  /\ UNCHANGED <<frame, dvars>>
  /\ LET r == clone_ambiguous_jump_blocks(Graph)
     IN /\ ~r.full
        /\ SetGraph(r.G)
        /\ last' = [Call("clone_ambiguous_jump_blocks", None, FALSE, FALSE,
                         r.splits > 0, "none", {}, <<>>)
                      EXCEPT !.log = r.log]
  /\ UNCHANGED edits

Refine == \E b \in BlockIds, i \in 1..2, x \in EnvDests \cup EnvConds :
            DataflowRefine(b, i, x)

\* the calls of hook_up_jumps, on one block and on the graph
NextHook ==
  \/ Refine
  \/ \E b \in BlockIds, mj \in BOOLEAN, gt \in BOOLEAN :
       HookUpJumpsBlock(b, mj, gt)
  \/ \E mj \in BOOLEAN, gt \in BOOLEAN : HookUpJumps(mj, gt)

SpecHook == Init /\ [][NextHook]_vars

\* the operations of the graph
NextGraph ==
  \/ Refine
  \/ \E mj \in BOOLEAN, gt \in BOOLEAN : HookUpJumps(mj, gt)
  \/ \E h \in BlockIds, t \in BlockIds : AddEdge(h, t)
  \/ \E h \in BlockIds, t \in BlockIds : RemoveEdge(h, t)
  \/ \E e \in ToSet(InitEntries) : AddBlock(e)
  \/ \E b \in BlockIds : RemoveBlock(b)
  \/ \E o \in OriginChoices : RemoveUnreachableCode(o)
  \/ \E ip \in BOOLEAN, is \in BOOLEAN : MergeDuplicateBlocks(ip, is)
  \/ CloneAmbiguousJumpBlocks

SpecGraph == Init /\ [][NextGraph]_vars

\* merge_duplicate_blocks on graphs that hold duplicates: blocks added for
\* code the graph holds already and the copies of split chains
InitMerge ==
  \E f1 \in FinalOps(1), f2 \in FinalOps(2), f3 \in FinalOps(3) :
    Constructed(TACGraph(<<f1, f2, f3>>), MaxMergeEdits)

NextMerge ==
  \/ Refine
  \/ \E h \in BlockIds, t \in BlockIds : AddEdge(h, t)
  \/ \E e \in ToSet(InitEntries) : AddBlock(e)
  \/ \E ip \in BOOLEAN, is \in BOOLEAN : MergeDuplicateBlocks(ip, is)

SpecMerge == InitMerge /\ [][NextMerge]_vars

\* the destinations the dataflow analysis gives the jump that ends the chain:
\* the constant pushed at 0, the one pushed at 2, or their join
ChainDests ==
  {Variable(Fin({0, 2}), Fin({0, 2})), Variable(Fin({2}), Fin({0})),
   Variable(Fin({0}), Fin({2}))}

\* hook_up_stack_vars gives the destination of block b, a stack variable,
\* the value x
PropagateDest(b, x) ==
  /\ UNCHANGED <<frame, dvars>>
  /\ edits > 0
  /\ InSeq(b, blocks)
  /\ blk[b].tac_ops # <<>>
  /\ LET n == Len(blk[b].tac_ops)
         op == blk[b].tac_ops[n]
     IN /\ op.opcode = "JUMP"
        /\ op.args[1].def_sites # Fin({blk[b].entry})
        /\ op.args[1] # x
        /\ blk' = [blk EXCEPT ![b].tac_ops[n].args[1] = x]
  /\ edits' = edits - 1
  /\ last' = Call("dataflow", None, FALSE, FALSE, FALSE, "none", {}, <<>>)
  /\ UNCHANGED <<blocks, root>>

MaxChain == 2

InitClone ==
  \E chain_len \in 1..MaxChain :
    Constructed(TACGraphOf(ChainEntries(chain_len), ChainOps(chain_len)),
                MaxCloneEdits)

NextClone ==
  \/ \E b \in BlockIds, x \in ChainDests : PropagateDest(b, x)
  \/ \E mj \in BOOLEAN, gt \in BOOLEAN : HookUpJumps(mj, gt)
  \/ CloneAmbiguousJumpBlocks

SpecClone == InitClone /\ [][NextClone]_vars

(***************************************************************************)
(* The conversion of one EVM block by the Destackifier and the operations  *)
(* of the resulting TACBasicBlock.  evm_ops are the EVM ops handled so far *)
(* by the loop of convert_block; self_ops, self_stack and self_stack_vars  *)
(* are the fields ops, stack and stack_vars of the Destackifier, and the   *)
(* tac_ops and delta_stack of the block once it is converted; store holds  *)
(* the value sets of the Variables made by __new_var; block_entry_stack is *)
(* the entry_stack of the block; pops are the calls of VariableStack.pop   *)
(* made so far.                                                            *)
(***************************************************************************)
\* the EVM ops a block is made of: opcode and, for a PUSH, the value pushed
EvmOpChoices ==
  {<<"PUSH1", v>> : v \in {3, 4}}
    \cup {<<o, 0>> : o \in DOMAIN opcode_pop \ {"PUSH1"}}

\* the entry stacks the dataflow analysis gives the block (top of stack last)
EntryStacks ==
  {VariableStack(<<>>),
   VariableStack(<<VariableOf({1}, "Var")>>),
   VariableStack(<<VariableOf({1, 2}, "Var"), VariableOf({4}, "Var")>>),
   VariableStack(<<VariableOf({}, "Var"), VariableOf({3}, "Var")>>),
   VariableStack(<<VariableTop("Var", -1), VariableOf({1}, "Var")>>)}

Destack ==
  [ops |-> self_ops, stack |-> self_stack, stack_vars |-> self_stack_vars,
   calls |-> pops]

HandleEvmOp(opcode, value) ==
  /\ ~converted
  /\ Len(evm_ops) < MaxEvmOps
  /\ LET l == evm_ops[Len(evm_ops)]
         pc == IF evm_ops = <<>> THEN 0
               ELSE l.pc + 1 + (IF is_push(l.opcode) THEN 1 ELSE 0)
         op == [opcode |-> opcode, value |-> value, pc |-> pc]
         D == handle_evm_op(Destack, op)
     IN /\ evm_ops' = Append(evm_ops, op)
        /\ self_ops' = D.ops
        /\ self_stack' = D.stack
        /\ self_stack_vars' = D.stack_vars
        /\ pops' = D.calls
  /\ UNCHANGED <<store, block_entry_stack, converted>>
  /\ UNCHANGED <<blocks, blk, root, last, edits, frame>>

ConvertBlock ==
  /\ ~converted
  /\ self_ops' = convert_block_ops(Destack,
                              IF evm_ops = <<>> THEN None ELSE evm_ops[1].pc)
  /\ converted' = TRUE
  /\ last' = CallOn("convert_block", FALSE, "none")
  /\ UNCHANGED <<evm_ops, self_stack, self_stack_vars, store,
                 block_entry_stack, pops>>
  /\ UNCHANGED <<blocks, blk, root, edits, frame>>

\* the dataflow analysis assigns the entry stack of the block
SetEntryStack(es) ==
  /\ converted
  /\ es # block_entry_stack
  /\ block_entry_stack' = es
  /\ last' = CallOn("dataflow", FALSE, "none")
  /\ UNCHANGED <<evm_ops, self_ops, self_stack, self_stack_vars, store, pops,
                 converted>>
  /\ UNCHANGED <<blocks, blk, root, edits, frame>>

HookUpStackVars ==
  /\ converted
  /\ self_ops' = hook_up_stack_vars(self_ops, block_entry_stack)
  /\ last' = CallOn("hook_up_stack_vars", FALSE, "none")
  /\ UNCHANGED <<evm_ops, self_stack, self_stack_vars, store,
                 block_entry_stack, pops, converted>>
  /\ UNCHANGED <<blocks, blk, root, edits, frame>>

ApplyOperations(use_sets) ==
  /\ converted
  /\ LET r == apply_operations(self_ops, store, use_sets)
     IN /\ store' = r.store
        /\ last' = CallOn("apply_operations", use_sets, r.raised)
  /\ UNCHANGED <<evm_ops, self_ops, self_stack, self_stack_vars,
                 block_entry_stack, pops, converted>>
  /\ UNCHANGED <<blocks, blk, root, edits, frame>>

InitBlock ==
  Constructed(TACGraphOf(ChainEntries(1), ChainOps(1)), 0)

NextBlock ==
  \/ \E o \in EvmOpChoices : HandleEvmOp(o[1], o[2])
  \/ ConvertBlock
  \/ \E es \in EntryStacks : SetEntryStack(es)
  \/ HookUpStackVars
  \/ \E use_sets \in BOOLEAN : ApplyOperations(use_sets)

SpecBlock == InitBlock /\ [][NextBlock]_vars

(***************************************************************************)
(* The VariableStack on its own: its methods are called, one call a step,  *)
(* on stacks of every shape, the full ones included.  self_stack is the    *)
(* stack, last the call made: its arguments in log, what it returned in    *)
(* ret.                                                                    *)
(***************************************************************************)
\* VariableStack.__eq__: same length and pairwise-equal Variables, where
\* Variables are equal when their value sets are
stack_eq(a, b) ==
  /\ Len(a.value) = Len(b.value)
  /\ \A i \in 1..Len(a.value) : a.value[i].value = b.value[i].value

\* SubsetLatticeElement.meet
ssle_meet(a, b) ==
  IF is_top(a) THEN b
  ELSE IF is_top(b) THEN a
  ELSE Fin(a.elems \cap b.elems)

\* a faulty meet, which keeps the Bottoms at the bottom of the result
stack_meet_undropped(a, b) ==
  LET n == IF Len(a.value) > Len(b.value) THEN Len(a.value)
           ELSE Len(b.value)
      fill(s, t) ==
        IF t < Len(s.value) THEN s.value[Len(s.value) - t]
        ELSE VariableOf({}, "Var")
      Variable_meet(x, y) ==
        IF is_top(x.value) THEN y
        ELSE IF is_top(y.value) THEN x
        ELSE VariableOf(ssle_meet(x.value, y.value).elems, "Var")
  IN VariableStack([i \in 1..n |->
                      Variable_meet(fill(a, n - i), fill(b, n - i))])

\* VariableStack.meet: the Variables are paired from the top, a Bottom
\* standing for each one missing, and the Bottoms at the bottom of the
\* result are dropped
stack_meet(a, b) ==
  LET n == IF Len(a.value) > Len(b.value) THEN Len(a.value)
           ELSE Len(b.value)
      fill(s, t) ==
        IF t < Len(s.value) THEN s.value[Len(s.value) - t]
        ELSE VariableOf({}, "Var")
      Variable_meet(x, y) ==
        IF is_top(x.value) THEN y
        ELSE IF is_top(y.value) THEN x
        ELSE VariableOf(ssle_meet(x.value, y.value).elems, "Var")
      met == [i \in 1..n |-> Variable_meet(fill(a, n - i), fill(b, n - i))]
      dropwhile(s) ==
        LET kept == {i \in 1..Len(s) : ~is_bottom(s[i].value)}
        IN IF kept = {} THEN <<>>
           ELSE SubSeq(s, CHOOSE i \in kept :
                            \A j \in 1..(i - 1) : is_bottom(s[j].value),
                       Len(s))
  IN VariableStack(dropwhile(met))

\* VariableStack.join
stack_join(a, b) ==
  LET n == IF Len(a.value) > Len(b.value) THEN Len(a.value)
           ELSE Len(b.value)
      fill(s, t) ==
        IF t < Len(s.value) THEN s.value[Len(s.value) - t]
        ELSE VariableOf({}, "Var")
      Variable_join(x, y) ==
        IF is_top(x.value) \/ is_top(y.value) THEN VariableTop("Var", -1)
        ELSE VariableOf(ssle_join(x.value, y.value).elems, "Var")
  IN VariableStack([i \in 1..n |-> Variable_join(fill(a, n - i), fill(b, n - i))])

\* the stacks the calls start from: every stack of at most MaxStack
\* Variables that are Top, Bottom or finite sets, and the stacks one short
\* of full and full
StackChoices ==
  LET vs == {VariableTop("Var", -1), VariableOf({}, "Var"),
             VariableOf({1}, "a"), VariableOf({1, 2}, "b")}
      long(k) == [i \in 1..k |-> IF i = k THEN VariableOf({1, 2}, "b")
                                 ELSE VariableOf({1}, "a")]
  IN {VariableStack(s) : s \in UNION {[1..k -> vs] : k \in 0..MaxStack}}
       \cup {VariableStack(long(MAX_SIZE - 1)), VariableStack(long(MAX_SIZE))}

\* one call of a method of the stack, with what it returned
StackCall(op, args, ret) ==
  /\ edits > 0
  /\ edits' = edits - 1
  /\ last' = [CallOn(op, FALSE, "none") EXCEPT !.log = args, !.ret = ret]
  /\ UNCHANGED <<blocks, blk, root, frame, evm_ops, self_ops, self_stack_vars,
                 store, block_entry_stack, pops, converted>>

Peek(n) ==
  /\ StackCall("peek", <<n>>, peek(self_stack, n))
  /\ UNCHANGED self_stack

Push(var) ==
  /\ StackCall("push", <<var>>, NoVar)
  /\ self_stack' = push(self_stack, var)

Pop ==
  /\ StackCall("pop", <<>>, pop(self_stack).ret)
  /\ self_stack' = pop(self_stack).stack

PushMany(vs) ==
  /\ StackCall("push_many", <<vs>>, NoVar)
  /\ self_stack' = push_many(self_stack, vs)

PopMany(n) ==
  /\ StackCall("pop_many", <<n>>, pop_many(self_stack, n).items)
  /\ self_stack' = pop_many(self_stack, n).stack

Dup(n) ==
  /\ StackCall("dup", <<n>>, NoVar)
  /\ self_stack' = dup(self_stack, n).stack

Swap(n) ==
  /\ StackCall("swap", <<n>>, NoVar)
  /\ self_stack' = swap(self_stack, n).stack

\* the class method meet, on the stack and another one
StackMeet(other) ==
  /\ StackCall("meet", <<other>>, stack_meet(self_stack, other))
  /\ UNCHANGED self_stack

\* the class method join, on the stack and another one
StackJoin(other) ==
  /\ StackCall("join", <<other>>, stack_join(self_stack, other))
  /\ UNCHANGED self_stack

InitStack ==
  /\ self_stack \in StackChoices
  /\ edits = MaxStackCalls
  /\ frame = NoFrame
  /\ last = Call("init", None, FALSE, FALSE, FALSE, "none", {}, <<>>)
  /\ evm_ops = <<>>
  /\ self_ops = fresh_init.ops
  /\ self_stack_vars = fresh_init.stack_vars
  /\ pops = fresh_init.calls
  /\ store = [k \in 0..(MaxEvmOps - 1) |-> Top]
  /\ block_entry_stack = VariableStack(<<>>)
  /\ converted = FALSE
  /\ blocks = TACGraphOf(ChainEntries(1), ChainOps(1)).blocks
  /\ blk = TACGraphOf(ChainEntries(1), ChainOps(1)).blk
  /\ root = TACGraphOf(ChainEntries(1), ChainOps(1)).root

NextStack ==
  \/ \E n \in 0..MaxStack : Peek(n)
  \/ \E var \in {VariableOf({1}, "a"), VariableOf({1, 2}, "b")} : Push(var)
  \/ Pop
  \/ \E vs \in {<<>>, <<VariableOf({1}, "a")>>,
                <<VariableOf({1}, "a"), VariableOf({1, 2}, "b")>>} :
       PushMany(vs)
  \/ \E n \in 0..2 : PopMany(n)
  \/ \E n \in 1..MaxStack : Dup(n)
  \/ \E n \in 1..MaxStack : Swap(n)
  \/ \E other \in {self_stack, VariableStack(<<>>),
                   VariableStack(<<VariableOf({1}, "a")>>),
                   VariableStack(<<VariableOf({1, 2}, "b"),
                                   VariableOf({}, "Var")>>)} :
       StackMeet(other)
  \/ \E other \in {self_stack, VariableStack(<<>>),
                   VariableStack(<<VariableOf({1}, "a")>>),
                   VariableStack(<<VariableOf({1, 2}, "b"),
                                   VariableOf({}, "Var")>>)} :
       StackJoin(other)

SpecStack == InitStack /\ [][NextStack]_vars

(***************************************************************************)
(* The lattice classes and the arithmetic of Variable on their own: each   *)
(* step is one call of a class method, last holding the call with its      *)
(* arguments in log and what it returned in ret.                          *)
(***************************************************************************)
\* widen_threshold of the settings, by its documented default
widen_threshold == 10

\* the elements of a lattice class the calls are made on: an
\* IntLatticeElement holding n is Fin({n})
Elements(cls) ==
  IF cls = "IntLatticeElement" THEN {Top, Bottom} \cup {Fin({n}) : n \in 0..2}
  ELSE IF cls = "SubsetLatticeElement"
  THEN {Top} \cup {Fin(S) : S \in SUBSET (0..2)}
  ELSE {Top} \cup {Fin(S) : S \in SUBSET {0, 1, CARDINALITY - 1}}

\* cls(values) of a lattice class: a Variable reduces modulo CARDINALITY
construct(cls, members) ==
  IF cls = "Variable" THEN Fin({v % CARDINALITY : v \in members})
  ELSE Fin(members)

\* a faulty meet, which gives the first of two different integers
meet_first(cls, a, b) ==
  IF cls = "IntLatticeElement"
  THEN IF is_bottom(a) \/ is_bottom(b) THEN Bottom
       ELSE IF is_top(a) THEN b
       ELSE a
  ELSE IF is_top(a) THEN b
  ELSE IF is_top(b) THEN a
  ELSE construct(cls, a.elems \cap b.elems)

\* cls.meet(a, b)
meet(cls, a, b) ==
  IF cls = "IntLatticeElement"
  THEN IF is_bottom(a) \/ is_bottom(b) THEN Bottom
       ELSE IF is_top(a) THEN b
       ELSE IF is_top(b) THEN a
       ELSE IF a.elems = b.elems THEN a
       ELSE Bottom
  ELSE IF is_top(a) THEN b
  ELSE IF is_top(b) THEN a
  ELSE construct(cls, a.elems \cap b.elems)

\* cls.join(a, b)
join(cls, a, b) ==
  IF cls = "IntLatticeElement"
  THEN IF is_top(a) \/ is_top(b) THEN Top
       ELSE IF is_bottom(a) THEN b
       ELSE IF is_bottom(b) THEN a
       ELSE IF a.elems = b.elems THEN a
       ELSE Top
  ELSE IF is_top(a) \/ is_top(b) THEN Top
  ELSE construct(cls, a.elems \cup b.elems)

\* the value sets the arithmetic is called on: Top, Bottom, two sets with
\* more than widen_threshold sums, and the words of two bytes of every sign
ArithElems ==
  LET words == {h * 256 + l : h, l \in {0, 1, 127, 128, 254, 255}} \cup {2}
  IN {Top, Bottom, Fin({0, 1, 2, 3}), Fin({0, 4, 8})}
       \cup {Fin({v}) : v \in words}

\* one call of a class method, with what it returned or raised
ClassCall(op, args, ret, raised) ==
  /\ edits > 0
  /\ edits' = edits - 1
  /\ last' = [CallOn(op, FALSE, raised) EXCEPT !.log = args, !.ret = ret]
  /\ UNCHANGED <<blocks, blk, root, frame, dvars>>

Meet(cls, a, b) ==
  /\ ClassCall("meet", <<cls, a, b>>, meet(cls, a, b), "none")

Join(cls, a, b) ==
  /\ ClassCall("join", <<cls, a, b>>, join(cls, a, b), "none")

\* Variable(values) on a collection of integers of any size and sign
VariableInit(ints) ==
  /\ ClassCall("Variable", <<ints>>, VariableOf(ints, "Var"), "none")

\* an assignment of the value set vals to the values of a Variable
SetValues(vals) ==
  LET var == VariableTop("V0", 0)
      acc == set_values([store |-> store, raised |-> "none"], var, vals)
  IN /\ ClassCall("values", <<vals>>, acc.store[var.id], acc.raised)

CartesianMap(opname, elements) ==
  LET c == cartesian_map(opname, elements)
  IN /\ ClassCall("cartesian_map", <<opname, elements>>, c.result, c.raised)

ArithOp(opname, args) ==
  LET r == arith_op(opname, args)
  IN /\ ClassCall("arith_op", <<opname, args>>, r.result, r.raised)

InitValue ==
  Constructed(TACGraphOf(ChainEntries(1), ChainOps(1)), MaxEdits)

\* the inputs to draw from S: none once the calls to make are made
Pending(S) == IF edits > 0 THEN S ELSE {}

NextValue ==
  \/ \E cls \in Pending({"IntLatticeElement", "SubsetLatticeElement",
                         "Variable"}) :
       \E a, b \in Elements(cls) : Meet(cls, a, b) \/ Join(cls, a, b)
  \/ \E ints \in Pending(SUBSET {-1, 0, 5, CARDINALITY - 1, CARDINALITY,
                                 CARDINALITY + 3}) : VariableInit(ints)
  \/ \E vals \in Pending({Fin(S) : S \in SUBSET {-1, 0, CARDINALITY + 3}}) :
       SetValues(vals)
  \/ \E opname \in Pending({"ADD", "SUB", "SIGNEXTEND", "DIV", "SDIV", "MOD",
                            "SMOD", "BYTE", "NOT"}) :
       \/ \E l, r \in ArithElems :
            CartesianMap(opname, <<l, r>>) \/ ArithOp(opname, <<l, r>>)
       \/ \E v \in ArithElems :
            CartesianMap(opname, <<v>>) \/ ArithOp(opname, <<v>>)
       \/ ArithOp(opname, <<>>)

SpecValue == InitValue /\ [][NextValue]_vars

(***************************************************************************)
(* The loops of clone_ambiguous_jump_blocks and of merge_duplicate_blocks, *)
(* step by step: one step is one iteration of a for loop or one test of    *)
(* the while loop.  frame.op is "none" before the call, "clone" or "merge" *)
(* while it runs, "returned" when it has returned or raised, and "cut"     *)
(* when the copies of a split or a merged block need more identities than  *)
(* BlockIds holds.                                                         *)
(***************************************************************************)
\* the while loop is entered: modified = False, and the for loop starts on
\* self.blocks with an empty skip set
BeginClone ==
  /\ frame.op = "none"
  /\ frame' = [NoFrame EXCEPT !.op = "clone", !.i = 1]
  /\ UNCHANGED <<blocks, blk, root, last, edits, dvars>>

\* one iteration of the for loop over self.blocks
CloneBlock ==
  /\ frame.op = "clone"
  /\ frame.i <= Len(blocks)
  /\ LET R1 == clone_block([G |-> Graph, full |-> FALSE, skip |-> frame.skip,
                            splits |-> 0, log |-> <<>>], blocks[frame.i])
     IN IF R1.full
        THEN /\ frame' = [frame EXCEPT !.op = "cut"]
             /\ UNCHANGED <<blocks, blk, root>>
        ELSE /\ SetGraph(R1.G)
             /\ frame' = [frame EXCEPT !.i = @ + 1, !.skip = R1.skip,
                                       !.modified = @ \/ R1.splits > 0]
  /\ UNCHANGED <<last, edits, dvars>>

\* the for loop is exhausted: the while loop runs again if a chain was
\* split, and the call returns if none was
CloneLoopEnd ==
  /\ frame.op = "clone"
  /\ frame.i > Len(blocks)
  /\ frame' = IF frame.modified
              THEN [frame EXCEPT !.i = 1, !.modified = FALSE]
              ELSE [frame EXCEPT !.op = "returned"]
  /\ UNCHANGED <<blocks, blk, root, last, edits, dvars>>

\* merge_duplicate_blocks is called, on the graph as it was built or as a
\* call of clone_ambiguous_jump_blocks left it: modified = True
BeginMerge(ignore_preds, ignore_succs) ==
  /\ frame.op = "none" \/ (frame.op = "returned" /\ frame.skip # {})
  /\ frame' = [NoFrame EXCEPT !.op = "merge", !.modified = TRUE,
                              !.ignore_preds = ignore_preds,
                              !.ignore_succs = ignore_succs]
  /\ UNCHANGED <<blocks, blk, root, last, edits, dvars>>

\* the test of the while loop and, if it passes, the grouping of the blocks
MergePass ==
  /\ frame.op = "merge"
  /\ frame.groups = <<>>
  /\ frame' = IF frame.modified
              THEN LET groups == duplicate_groups(Graph, frame.ignore_preds,
                                                  frame.ignore_succs)
                   IN [frame EXCEPT !.groups = groups,
                                    !.modified = groups # <<>>]
              ELSE [frame EXCEPT !.op = "returned"]
  /\ UNCHANGED <<blocks, blk, root, last, edits, dvars>>

\* one iteration of the for loop over the groups
MergeGroup ==
  /\ frame.op = "merge"
  /\ frame.groups # <<>>
  /\ LET R1 == merge_group([G |-> Graph, raised |-> "none", full |-> FALSE,
                            merged |-> {}, log |-> <<>>],
                           Head(frame.groups))
     IN IF R1.full
        THEN /\ frame' = [frame EXCEPT !.op = "cut"]
             /\ UNCHANGED <<blocks, blk, root>>
        ELSE /\ SetGraph(R1.G)
             /\ frame' = IF R1.raised # "none"
                         THEN [frame EXCEPT !.op = "returned",
                                            !.raised = R1.raised]
                         ELSE [frame EXCEPT !.groups = Tail(@)]
  /\ UNCHANGED <<last, edits, dvars>>

\* changes made to the graph before the call
MaxLoopEdits == 2

InitLoops ==
  \E f1 \in FinalOps(1), f2 \in FinalOps(2), f3 \in FinalOps(3) :
    Constructed(TACGraph(<<f1, f2, f3>>), MaxLoopEdits)

\* the destinations the dataflow analysis gives a jump here: two values, or
\* any value, pushed at two sites
LoopDests ==
  {Variable(Fin({2, 4}), Fin({0, 2})), Variable(Top, Fin({0, 2}))}

\* the graph is changed from outside only while no call runs: a jump gets an
\* ambiguous destination and is hooked up, a block gets an edge to itself, a
\* second block is added for code the graph holds
NextLoops ==
  \/ frame.op = "none"
       /\ \E b \in BlockIds, x \in LoopDests : DataflowRefine(b, 1, x)
  \/ frame.op = "none" /\ \E mj \in BOOLEAN : HookUpJumps(mj, FALSE)
  \/ frame.op = "none" /\ \E h \in BlockIds : AddEdge(h, h)
  \/ frame.op = "none" /\ \E e \in ToSet(InitEntries) : AddBlock(e)
  \/ BeginClone
  \/ CloneBlock
  \/ CloneLoopEnd
  \/ \E ip \in BOOLEAN, is \in BOOLEAN : BeginMerge(ip, is)
  \/ MergePass
  \/ MergeGroup

\* WF_vars(CloneBlock) and WF_vars(MergeGroup), with ENABLED <<A>>_vars
\* written as the guard of the action, which it equals: under its guard each
\* of the two sets frame to a new value
FairCloneBlock ==
  \/ []<>~(frame.op = "clone" /\ frame.i <= Len(blocks))
  \/ []<><<CloneBlock>>_vars

FairMergeGroup ==
  \/ []<>~(frame.op = "merge" /\ frame.groups # <<>>)
  \/ []<><<MergeGroup>>_vars

\* a call that runs takes its next step: Python runs the loops of a call to
\* their end without a pause
SpecLoops ==
  /\ InitLoops /\ [][NextLoops]_vars
  /\ WF_vars(CloneLoopEnd) /\ WF_vars(MergePass)
  /\ FairCloneBlock /\ FairMergeGroup

Next ==
  \/ NextHook \/ NextGraph \/ NextMerge \/ NextClone \/ NextBlock
  \/ NextStack \/ NextValue \/ NextLoops

Spec == Init /\ [][Next]_vars

(***************************************************************************)
(* Properties of hook_up_jumps (SpecHook).  A step of a call is recognised *)
(* by the record it leaves in last; the unprimed state is the state before *)
(* the call, the primed state the one after.                               *)
(***************************************************************************)
FinalOp(b) == blk[b].tac_ops[Len(blk[b].tac_ops)]
EndsInJump(b) ==
  blk[b].tac_ops # <<>> /\ FinalOp(b).opcode \in {"JUMP", "JUMPI"}
Dest(b) == FinalOp(b).args[1]
Cond(b) == FinalOp(b).args[2]

\* the step is block.hook_up_jumps(mutate_jumps, generate_throws) on block b
BlockCall(b, mj, gt) ==
  /\ last'.op = "hook_up_jumps_block"
  /\ last'.b = b /\ last'.mutate_jumps = mj /\ last'.generate_throws = gt
\* mutate_jumps deletes the JUMPI / turns it into a JUMP
Deletes(b, mj) == mj /\ FinalOp(b).opcode = "JUMPI" /\ is_false(Cond(b))
Rewrites(b, mj) == mj /\ FinalOp(b).opcode = "JUMPI" /\ is_true(Cond(b))

\* the blocks, after the call, that hold a JUMPDEST at a value of d
Targets(d) ==
  {c \in ToSet(blocks') :
     \E i \in DOMAIN blk'[c].tac_ops :
        /\ blk'[c].tac_ops[i].opcode = "JUMPDEST"
        /\ blk'[c].tac_ops[i].pc \in d.value.elems}
\* the blocks whose pc span contains pc
Spanning(pc) ==
  {c \in ToSet(blocks') : blk'[c].entry <= pc /\ pc <= blk'[c].exit}
\* the fallthrough blocks of block b: the blocks at the pc after a JUMPI
\* that stays conditional, none after a JUMP, the blocks after the block's
\* exit for any other final op
Fallthrough(b, mj) ==
  IF FinalOp(b).opcode = "JUMPI"
  THEN (IF Rewrites(b, mj) THEN {} ELSE Spanning(FinalOp(b).pc + 1))
  ELSE IF FinalOp(b).opcode = "JUMP" THEN {}
  ELSE Spanning(blk[b].exit + 1)

\* C1: after hook_up_jumps on a block ending in JUMP or JUMPI (a JUMPI that
\* mutate_jumps rewrites to JUMP included) has_unresolved_jump is false iff
\* the destination is not Top; after a halting or other non-jump final op it
\* is false.
C1_UnresolvedIffDestTop ==
  [][\A b \in BlockIds, mj \in BOOLEAN, gt \in BOOLEAN :
       (BlockCall(b, mj, gt) /\ last'.raised = "none") =>
         IF EndsInJump(b)
         THEN Deletes(b, mj)
              \/ (blk'[b].has_unresolved_jump = is_unconstrained(Dest(b)))
         ELSE ~blk'[b].has_unresolved_jump]_vars

\* C2: after hook_up_jumps on a block whose jump destination is concrete, the
\* block's successors are exactly the blocks holding a JUMPDEST at a
\* destination value plus the fallthrough blocks: every other previous
\* successor has been removed.
C2_SuccsExactlyNewSet ==
  [][\A b \in BlockIds, mj \in BOOLEAN, gt \in BOOLEAN :
       (/\ BlockCall(b, mj, gt) /\ last'.raised = "none"
        /\ EndsInJump(b) /\ ~Deletes(b, mj)
        /\ ~is_unconstrained(Dest(b)))
       => blk'[b].succs = Targets(Dest(b)) \cup Fallthrough(b, mj)]_vars

\* a call of hook_up_jumps, on one block or on the whole graph
AnyHookCall == last'.op \in {"hook_up_jumps_block", "hook_up_jumps"}

\* C3: hook_up_jumps on a block whose jump destination is Top removes no
\* successor edge of the block: the successors after the call include those
\* before it, in every call of every behaviour.
C3_TopDestKeepsSuccs ==
  [][AnyHookCall =>
       \A b \in ToSet(blocks) :
          (EndsInJump(b) /\ is_unconstrained(Dest(b)))
          => blk[b].succs \subseteq blk'[b].succs]_vars

\* a call on a block that still ends in a jump to Top left it an old
\* successor which no destination value names
C3_Witness ==
  /\ last.op = "hook_up_jumps_block" /\ last.raised = "none" /\ ~last.ret
  /\ EndsInJump(last.b) /\ FinalOp(last.b).opcode = "JUMP"
  /\ is_unconstrained(Dest(last.b))
  /\ blk[last.b].succs # {}

\* C4: with mutate_jumps, hook_up_jumps on a block ending in a JUMPI whose
\* condition is_false removes the JUMPI, marks the block resolved and leaves
\* the blocks at final_pc + 1 as its only successors.
C4_FalseCondOnlyFallthrough ==
  [][\A b \in BlockIds, gt \in BOOLEAN :
       (/\ BlockCall(b, TRUE, gt)
        /\ blk[b].tac_ops # <<>> /\ Deletes(b, TRUE))
       => /\ last'.raised = "none"
          /\ blk'[b].tac_ops = Front(blk[b].tac_ops)
          /\ ~blk'[b].has_unresolved_jump
          /\ blk'[b].succs = Spanning(FinalOp(b).pc + 1)]_vars

\* C5: for a block ending in JUMP or JUMPI whose destination is constrained
\* (the empty set included) but names no valid JUMPDEST: with generate_throws
\* the final op becomes THROW, or THROWI with the condition of the JUMPI;
\* without it the jump is kept and has_unresolved_jump is true.
C5_InvalidJump ==
  [][\A b \in BlockIds, mj \in BOOLEAN, gt \in BOOLEAN :
       (/\ BlockCall(b, mj, gt)
        /\ EndsInJump(b) /\ ~Deletes(b, mj) /\ ~Rewrites(b, mj)
        /\ ~is_unconstrained(Dest(b))
        /\ Targets(Dest(b)) = {})
       => /\ last'.raised = "none"
          /\ Len(blk'[b].tac_ops) = Len(blk[b].tac_ops)
          /\ LET after == blk'[b].tac_ops[Len(blk[b].tac_ops)]
             IN IF gt
                THEN IF FinalOp(b).opcode = "JUMP"
                     THEN after.opcode = "THROW" /\ after.args = <<>>
                     ELSE after.opcode = "THROWI" /\ after.args = <<Cond(b)>>
                ELSE after = FinalOp(b) /\ blk'[b].has_unresolved_jump]_vars

\* is_valid_jump_dest(pc) is true iff some TAC op with that pc in some block
\* of the graph is a JUMPDEST
ValidDestDef ==
  \A pc \in 0..(InitEntries[Len(InitEntries)] + 2) :
     is_valid_jump_dest(Graph, pc)
     <=> \E c \in ToSet(blocks) :
            \E i \in DOMAIN blk[c].tac_ops :
               /\ blk[c].tac_ops[i].pc = pc
               /\ blk[c].tac_ops[i].opcode = "JUMPDEST"

\* the blocks that the call on b may link b to: fallthrough blocks and blocks
\* holding a JUMPDEST at a value of the jump's destination
MayLink(b, mj) ==
  IF blk[b].tac_ops = <<>> THEN {}
  ELSE Fallthrough(b, mj)
       \cup (IF EndsInJump(b) /\ ~is_unconstrained(Dest(b))
             THEN Targets(Dest(b)) ELSE {})

\* C6: every edge that hook_up_jumps adds goes to a fallthrough block or to a
\* block holding a JUMPDEST at a pc in the jump's destination value set, and
\* is_valid_jump_dest(pc) holds iff some op at pc in the graph is a JUMPDEST.
C6_AddedEdgesAreValid ==
  [][/\ ValidDestDef /\ ValidDestDef'
     /\ AnyHookCall =>
          \A b \in ToSet(blocks) :
             (blk'[b].succs \ blk[b].succs)
               \subseteq MayLink(b, last'.mutate_jumps)]_vars

\* a call gave a block ending in a jump to the constant 2 its edge to the
\* block whose JUMPDEST is at 2
C6_Witness ==
  /\ last.op = "hook_up_jumps_block" /\ last.raised = "none" /\ last.ret
  /\ EndsInJump(last.b) /\ Dest(last.b).value = Fin({2})
  /\ \E c \in blk[last.b].succs :
        blk[c].entry = 2 /\ blk[c].tac_ops[1].opcode = "JUMPDEST"

\* C7: hook_up_jumps on a block returns true iff the block's successor set
\* after the call differs from the one before; the graph's hook_up_jumps
\* returns true iff the call on at least one block returned true.
C7_ReturnsTrueIffSuccsChanged ==
  [][/\ (last'.op = "hook_up_jumps_block" /\ last'.raised = "none")
          => (last'.ret <=> blk'[last'.b].succs # blk[last'.b].succs)
     /\ (last'.op = "hook_up_jumps" /\ last'.raised = "none")
          => /\ last'.rets
                  = {b \in ToSet(blocks) : blk'[b].succs # blk[b].succs}
             /\ last'.ret <=> last'.rets # {}]_vars

\* the graph's call returned true although its last block's call did not
C7_Witness ==
  /\ last.op = "hook_up_jumps" /\ last.raised = "none" /\ last.ret
  /\ blocks[Len(blocks)] \notin last.rets

\* C8: a second call of hook_up_jumps with the same flags, nothing else
\* having changed, completes, returns false and changes no edge, no TAC op
\* and no has_unresolved_jump flag.
C8_SecondCallChangesNothing ==
  [][(/\ AnyHookCall
      /\ last.op = last'.op /\ last.b = last'.b
      /\ last.mutate_jumps = last'.mutate_jumps
      /\ last.generate_throws = last'.generate_throws
      /\ last.raised = "none")
     => /\ last'.raised = "none" /\ ~last'.ret
        /\ blk' = blk /\ blocks' = blocks]_vars

(***************************************************************************)
(* Properties of the graph operations (SpecGraph).                         *)
(***************************************************************************)
\* C9: after any sequence of add_edge, remove_edge, add_block, remove_block,
\* hook_up_jumps, remove_unreachable_code, merge_duplicate_blocks and
\* clone_ambiguous_jump_blocks on a freshly built graph, b is in a.succs iff
\* a is in b.preds for all blocks a, b of the graph, and every predecessor
\* and successor of a block of the graph is a block of the graph.
C9_EdgesSymmetricAndClosed ==
  /\ \A a \in ToSet(blocks), b \in ToSet(blocks) :
        b \in blk[a].succs <=> a \in blk[b].preds
  /\ \A a \in ToSet(blocks) :
        blk[a].preds \cup blk[a].succs \subseteq ToSet(blocks)

\* a chain was split into copies, and the copies are linked to other blocks
C9_Witness ==
  /\ last.op = "clone_ambiguous_jump_blocks" /\ last.ret
  /\ \E a \in ToSet(blocks) : a > Len(InitEntries) /\ blk[a].preds # {}
  /\ \E a \in ToSet(blocks) : a > Len(InitEntries) /\ blk[a].succs # {}

\* the blocks reachable along succs from the blocks spanning an origin, as
\* the least set closed under succs
RECURSIVE ReachableFrom(_)
ReachableFrom(S) ==
  LET T == S \cup UNION {blk[a].succs : a \in S}
  IN IF T = S THEN S ELSE ReachableFrom(T)
Reachable(origins) ==
  ReachableFrom({a \in ToSet(blocks) :
                   \E o \in origins : blk[a].entry <= o /\ o <= blk[a].exit})

\* C10: after remove_unreachable_code(origins) the graph holds exactly the
\* blocks that were reachable along succs from a block spanning an origin
\* address, no remaining block is linked to a removed one, and
\* transitive_closure returned each reachable block exactly once (cycles
\* included).
C10_ExactlyReachableRemain ==
  [][last'.op = "remove_unreachable_code" =>
       LET reached == last'.reached
       IN /\ ToSet(blocks') = Reachable(last'.rets)
          /\ blocks' = SelectSeq(blocks, LAMBDA a : a \in Reachable(last'.rets))
          /\ \A a \in ToSet(blocks') :
                /\ blk'[a].preds \cup blk'[a].succs \subseteq ToSet(blocks')
                /\ blk'[a].succs = blk[a].succs
          /\ ToSet(reached) = Reachable(last'.rets)
          /\ \A i \in DOMAIN reached, j \in DOMAIN reached :
                reached[i] = reached[j] => i = j]_vars

\* unreachable blocks were removed from a graph whose reachable part has a
\* cycle
C10_Witness ==
  /\ last.op = "remove_unreachable_code"
  /\ Len(blocks) < Len(InitEntries) /\ Len(last.reached) >= 2
  /\ \E a \in ToSet(blocks) : a \in ReachableFrom(blk[a].succs)

(***************************************************************************)
(* Properties of merge_duplicate_blocks (SpecMerge).  The call's record    *)
(* keeps ignore_preds and ignore_succs in the two flag fields.             *)
(***************************************************************************)
MergeCall == last'.op = "merge_duplicate_blocks"
MergeReturned == MergeCall /\ last'.raised = "none"

\* C11: when merge_duplicate_blocks(ignore_preds, ignore_succs) returns, no
\* two distinct blocks of the graph have the same entry pc, equal predecessor
\* sets (or any, with ignore_preds) and equal successor sets (or any, with
\* ignore_succs).
C11_NoDuplicatesLeft ==
  [][MergeReturned =>
       \A a \in ToSet(blocks'), b \in ToSet(blocks') :
          (/\ a # b
           /\ blk'[a].entry = blk'[b].entry
           /\ (last'.mutate_jumps \/ blk'[a].preds = blk'[b].preds)
           /\ (last'.generate_throws \/ blk'[a].succs = blk'[b].succs))
          => FALSE]_vars

\* two blocks at one entry with different predecessors were merged by a call
\* that ignores predecessors
C11_Witness ==
  /\ last.op = "merge_duplicate_blocks" /\ last.raised = "none"
  /\ last.mutate_jumps /\ ~last.generate_throws
  /\ \E i \in DOMAIN last.log :
        /\ Len(last.log[i].computed.group) = 2
        /\ last.log[i].computed.preds # {}
        /\ last.log[i].new_block \in ToSet(blocks)

\* the first group merged by the call, its members, and the block that
\* replaced them as the merge of the group left it
FirstGroup == last'.log[1]
Members == ToSet(FirstGroup.computed.group)
\* the blocks S with every member replaced by the new block
Replaced(S) ==
  (S \ Members) \cup (IF S \cap Members # {} THEN {FirstGroup.new_block}
                      ELSE {})

\* the block has the edges of the members, an edge from or to a member being
\* an edge from or to the replacing block
HasMergedEdges(block) ==
  /\ block.preds = Replaced(UNION {blk[b].preds : b \in Members})
  /\ block.succs = Replaced(UNION {blk[b].succs : b \in Members})

\* C12: for a group merged by merge_duplicate_blocks every member is removed
\* from the graph, and the replacing block has as predecessors the union of
\* the members' predecessors and as successors the union of their successors,
\* an edge from or to a member being an edge from or to the replacing block
\* (as the rewiring of the edges leaves the block, or else as the hook-ups
\* that end the merge of the group leave it).
C12_MergedEdgesAreUnion ==
  [][(MergeReturned /\ last'.log # <<>>) =>
       /\ Members \cap ToSet(FirstGroup.blocks) = {}
       /\ FirstGroup.new_block \in ToSet(FirstGroup.blocks)
       /\ \/ HasMergedEdges(FirstGroup.linked)
          \/ HasMergedEdges(FirstGroup.block)]_vars

\* C13: when the merge of a group is complete the replacing block's
\* has_unresolved_jump is the OR of the members' has_unresolved_jump flags.
C13_MergedFlagIsOr ==
  [][(MergeReturned /\ last'.log # <<>>) =>
       (FirstGroup.block.has_unresolved_jump
          <=> \E b \in Members : blk[b].has_unresolved_jump)]_vars

(***************************************************************************)
(* Properties of clone_ambiguous_jump_blocks.                              *)
(***************************************************************************)
CloneCall == last'.op = "clone_ambiguous_jump_blocks"

\* block b ends in a jump whose destination has more than one value and more
\* than one definition site
Ambiguous(b) ==
  /\ EndsInJump(b)
  /\ ~is_top(Dest(b).value) /\ Cardinality(Dest(b).value.elems) > 1
  /\ ~is_top(Dest(b).def_sites) /\ Cardinality(Dest(b).def_sites.elems) > 1

\* C14: clone_ambiguous_jump_blocks splits a chain only for a block whose
\* final op is JUMP or JUMPI and whose destination has a value set of
\* cardinality greater than 1 and a def-site set of cardinality greater than
\* 1; on a graph with no such block it changes no block and no edge.
C14_SplitsOnlyOnAmbiguous ==
  [][CloneCall =>
       /\ \A i \in DOMAIN last'.log : Ambiguous(last'.log[i].block)
       /\ (\A b \in ToSet(blocks) : ~Ambiguous(b))
            => (blocks' = blocks /\ blk' = blk /\ root' = root)]_vars

\* the first split of the call: the chain (the jumping block first, the
\* confluence block last), the identities of the copies, and the graph as
\* the split left it
Split == last'.log[1]
ChainLen == Len(Split.chain)
Confluence == Split.chain[ChainLen]
CopyHeads == {Split.ids[k][ChainLen] : k \in DOMAIN Split.ids}

\* C15: when clone_ambiguous_jump_blocks splits a chain whose confluence block
\* has predecessors P1..Pk, the blocks of the chain are removed from the
\* graph, k copies of the chain are added, the blocks of each copy linked in
\* the original order, the head of copy i has Pi as its only predecessor, and
\* Pi has the head of copy i, and neither the old head nor the head of
\* another copy, among its successors.
C15_ChainSplitPerPredecessor ==
  [][(CloneCall /\ last'.log # <<>>) =>
       /\ ToSet(Split.chain_preds) = blk[Confluence].preds
       /\ Len(Split.ids) = Cardinality(blk[Confluence].preds)
       /\ ToSet(Split.chain) \cap ToSet(Split.blocks) = {}
       /\ \A k \in DOMAIN Split.ids :
             /\ \A i \in 1..ChainLen :
                   /\ Split.ids[k][i] \in ToSet(Split.blocks)
                   /\ Split.blk[Split.ids[k][i]]
                        = [deepcopy(blk[Split.chain[i]], Split.ids[k][i])
                           EXCEPT !.preds = Split.blk[Split.ids[k][i]].preds,
                                  !.succs = Split.blk[Split.ids[k][i]].succs]
                   /\ \A j \in DOMAIN Split.ids, h \in 1..ChainLen :
                         Split.ids[j][h] = Split.ids[k][i] => (j = k /\ h = i)
             /\ \A i \in 1..(ChainLen - 1) :
                   /\ Split.blk[Split.ids[k][i]].preds = {Split.ids[k][i + 1]}
                   /\ Split.ids[k][i] \in Split.blk[Split.ids[k][i + 1]].succs
             /\ Split.blk[Split.ids[k][ChainLen]].preds
                  = {Split.chain_preds[k]}
             /\ Split.blk[Split.chain_preds[k]].succs
                  \cap (CopyHeads \cup {Confluence})
                  = {Split.ids[k][ChainLen]}]_vars

\* a chain of two blocks whose confluence block has two predecessors was
\* split into two copies
C15_Witness ==
  /\ last.op = "clone_ambiguous_jump_blocks" /\ last.log # <<>>
  /\ Len(last.log[1].chain) = 2 /\ Len(last.log[1].chain_preds) = 2
  /\ \A k \in 1..2, i \in 1..2 : last.log[1].ids[k][i] \in ToSet(blocks)

\* blocks c and d are the jumping blocks of two copies of one chain, and the
\* dataflow analysis has given the JUMP of each the constant that the
\* predecessor of its copy pushes
ResolvedCopies(c, d) ==
  /\ c # d /\ blk[c].entry = blk[d].entry
  /\ EndsInJump(c) /\ FinalOp(c).opcode = "JUMP" /\ is_const(Dest(c))
  /\ EndsInJump(d) /\ FinalOp(d).opcode = "JUMP" /\ is_const(Dest(d))
  /\ Dest(c).value # Dest(d).value
  /\ Dest(c).def_sites # Dest(d).def_sites

\* C16: when two predecessors each push a distinct constant destination into
\* a chain ending in JUMP, then after clone_ambiguous_jump_blocks (and the
\* hook_up_jumps that follows the propagation of the constants) the jumping
\* block of each copy has exactly one successor.
C16_EachCopyHasOneSuccessor ==
  \A c \in ToSet(blocks), d \in ToSet(blocks) :
     (/\ ResolvedCopies(c, d)
      /\ last.op = "hook_up_jumps" /\ last.raised = "none")
     => Cardinality(blk[c].succs) = 1

\* C17: every block of the graph has at least one TAC op, after conversion
\* and after any sequence of apply_operations and hook_up_jumps calls with
\* any combination of mutate_jumps and generate_throws.
C17_EveryBlockHasAnOp ==
  \A b \in ToSet(blocks) : Len(blk[b].tac_ops) >= 1

(***************************************************************************)
(* Properties of the conversion of a block and of the operations of the    *)
(* converted block (SpecBlock).                                            *)
(***************************************************************************)
\* the calls of pop, among the first k, that found the stack empty
Underflows(k) == {i \in 1..k : pops[i].empty}

\* C18: for any interleaving of pushes and pops, every pop on an empty stack
\* returns the MetaVariable named S{j} with payload j, j being the number
\* of earlier pops on an empty stack, and empty_pops is the number of pops
\* on an empty stack (a pop on a non-empty stack leaves it unchanged); a
\* block whose first op is ADD gets the arguments S0 and S1, and
\* delta_stack.empty_pops = 2 when ADD is its only op.
C18_UnderflowPopsAreNumbered ==
  /\ \A i \in DOMAIN pops :
       pops[i].empty =>
         LET j == Cardinality(Underflows(i - 1))
         IN /\ pops[i].ret.cls = "MetaVariable"
            /\ pops[i].ret.name = "S" \o ToString(j)
            /\ pops[i].ret.payload = j
  /\ self_stack.empty_pops = Cardinality(Underflows(Len(pops)))
  /\ (evm_ops # <<>> /\ evm_ops[1].opcode = "ADD") =>
       /\ Len(self_ops[1].args) = 2
       /\ self_ops[1].args[1].stack_var.name = "S0"
       /\ self_ops[1].args[1].stack_var.payload = 0
       /\ self_ops[1].args[2].stack_var.name = "S1"
       /\ self_ops[1].args[2].stack_var.payload = 1
       /\ Len(evm_ops) = 1 => self_stack.empty_pops = 2

\* a converted block whose ops popped the empty stack, then a pushed
\* variable, then the empty stack again
C18_Witness ==
  /\ converted
  /\ \E i \in DOMAIN pops, h \in DOMAIN pops, k \in DOMAIN pops :
       /\ i < h /\ h < k
       /\ pops[i].empty /\ ~pops[h].empty /\ pops[k].empty
       /\ pops[k].ret.payload = 1
       /\ self_stack.empty_pops = 2

ApplyCall == last'.op = "apply_operations"

\* the value sets of the args of op once the call is over
ArgValues(op) ==
  [i \in 1..Len(op.args) |-> values(store', arg_value(op.args[i]))]

Foldable(op) ==
  \/ \A i \in 1..Len(op.args) :
       ~ArgValues(op)[i].top /\ Cardinality(ArgValues(op)[i].elems) = 1
  \/ last'.use_sets /\ \A i \in 1..Len(op.args) : ~ArgValues(op)[i].top

Results(op) ==
  Fin({(IF op.opcode = "ADD" THEN l + r ELSE l - r) % CARDINALITY :
         l \in ArgValues(op)[1].elems, r \in ArgValues(op)[2].elems})

\* C19: apply_operations(use_sets) overwrites the lhs of an arithmetic op
\* with the results of the opcode over all combinations of its arguments'
\* values, modulo the word size, exactly when every argument is a constant
\* or use_sets is on and no argument is Top (an empty value set included);
\* the lhs of every other op except CONST is unchanged; one pass folds a
\* chain, so PUSH 3; PUSH 4; ADD ends with V2 = {7}.
C19_FoldsArithmetic ==
  [][ApplyCall =>
       /\ \A k \in 1..Len(self_ops) :
            LET op == self_ops[k]
            IN IF op.opcode \in {"ADD", "SUB"}
               THEN store'[op.lhs.id] =
                      IF Foldable(op) THEN Results(op) ELSE store[op.lhs.id]
               ELSE (op.opcode # "CONST" /\ op.lhs.cls = "Variable")
                      => store'[op.lhs.id] = store[op.lhs.id]
       /\ (/\ Len(evm_ops) = 3
           /\ evm_ops[1].opcode = "PUSH1" /\ evm_ops[1].value = 3
           /\ evm_ops[2].opcode = "PUSH1" /\ evm_ops[2].value = 4
           /\ evm_ops[3].opcode = "ADD")
            => store'[2] = Fin({7})]_vars

HookVarsCall == last'.op = "hook_up_stack_vars"

\* the TACArg a2 is a after the call: its var is the Variable at the depth
\* of its stack_var when that is above the bottom of the entry stack
Hooked(a, a2) ==
  LET n == Len(block_entry_stack.value)
  IN /\ a2.stack_var = a.stack_var
     /\ a2.var = IF a.stack_var # NoVar /\ a.stack_var.payload < n
                 THEN block_entry_stack.value[n - a.stack_var.payload]
                 ELSE a.var

\* C20: after hook_up_stack_vars every TACArg of every op of the block (the
\* address inside the location of MLOAD, SLOAD, MSTORE, MSTORE8 and SSTORE
\* included) whose stack_var has depth d < len(entry_stack) has var equal
\* to the Variable d places below the top of entry_stack; any other arg is
\* left as it was; no stack_var is changed.
C20_StackVarsHookedUp ==
  [][HookVarsCall =>
       \A k \in 1..Len(self_ops) :
         LET op == self_ops[k]
             op2 == self_ops'[k]
         IN /\ Len(op2.args) = Len(op.args)
            /\ \A i \in 1..Len(op.args) :
                 IF op.args[i].cls = "TACArg"
                 THEN Hooked(op.args[i], op2.args[i])
                 ELSE Hooked(op.args[i].address, op2.args[i].address)
            /\ op.lhs.cls = "MemLoc"
                 => Hooked(op.lhs.address, op2.lhs.address)]_vars

(***************************************************************************)
(* The claims about the VariableStack, checked under SpecStack.            *)
(***************************************************************************)
StackCalled(op) == last'.op = op

\* C21: on a stack of fewer than MAX_SIZE Variables, the empty one
\* included, push(v) followed by pop() returns v and gives back the
\* contents and empty_pops of before; dup(n) puts on top the Variable that
\* was n-th from the top, and after dup(1) two pops return the same
\* Variable
C21_PushPopAndDup ==
  [][Len(self_stack.value) < MAX_SIZE =>
       /\ StackCalled("push") =>
            pop(self_stack') = [stack |-> self_stack, ret |-> last'.log[1],
                                empty |-> FALSE]
       /\ StackCalled("dup") =>
            /\ peek(self_stack', 0) = peek(self_stack, last'.log[1] - 1)
            /\ last'.log[1] = 1 =>
                 /\ pop(self_stack').ret = peek(self_stack, 0)
                 /\ pop(pop(self_stack').stack).ret = peek(self_stack, 0)
    ]_vars

\* a push onto an empty stack that has been popped before
C21_Witness ==
  /\ last.op = "push"
  /\ Len(self_stack.value) = 1
  /\ self_stack.empty_pops = 1

\* C22: for n >= 1 and a stack of more than n Variables, swap(n) exchanges
\* the Variables at positions 0 and n from the top, changes no other one,
\* and changes neither the length nor empty_pops
C22_SwapExchanges ==
  [][(StackCalled("swap") /\ Len(self_stack.value) > last'.log[1]) =>
       LET n == last'.log[1]
           len == Len(self_stack.value)
       IN /\ Len(self_stack'.value) = len
          /\ self_stack'.empty_pops = self_stack.empty_pops
          /\ self_stack'.value[len] = self_stack.value[len - n]
          /\ self_stack'.value[len - n] = self_stack.value[len]
          /\ \A i \in 1..len :
               i \notin {len, len - n} =>
                 self_stack'.value[i] = self_stack.value[i]
    ]_vars

\* C23: peek(n) changes neither the contents nor empty_pops; it returns the
\* Variable n places below the top when there is one, and otherwise a
\* MetaVariable with payload n - len + empty_pops, the payload of the
\* Variable the last of n + 1 pops of the same stack returns
C23_PeekIsPure ==
  [][StackCalled("peek") =>
       LET n == last'.log[1]
           len == Len(self_stack.value)
       IN /\ self_stack' = self_stack
          /\ n < len => last'.ret = self_stack.value[len - n]
          /\ n >= len =>
               /\ last'.ret.cls = "MetaVariable"
               /\ last'.ret.payload = n - len + self_stack.empty_pops
               /\ last'.ret.payload =
                    pop_many(self_stack, n + 1).items[n + 1].payload
    ]_vars

\* a peek below the bottom of a stack that has been popped when empty
C23_Witness ==
  /\ last.op = "peek"
  /\ last.ret.cls = "MetaVariable"
  /\ self_stack.empty_pops = 1
  /\ last.ret.payload > last.log[1]

\* C24: after push, pop, push_many, pop_many, dup and swap the stack has at
\* most MAX_SIZE Variables and empty_pops is non-negative and no smaller
\* than before; a push onto a stack of MAX_SIZE Variables changes nothing
C24_StackBounded ==
  [][(\E op \in {"push", "pop", "push_many", "pop_many", "dup", "swap"} :
        StackCalled(op)) =>
       /\ Len(self_stack'.value) <= MAX_SIZE
       /\ self_stack'.empty_pops >= 0
       /\ self_stack'.empty_pops >= self_stack.empty_pops
       /\ (StackCalled("push") /\ Len(self_stack.value) = MAX_SIZE) =>
            self_stack' = self_stack
    ]_vars

\* a push onto a full stack: the Variable pushed is not on top
C24_Witness ==
  /\ last.op = "push"
  /\ Len(self_stack.value) = MAX_SIZE
  /\ self_stack.value[MAX_SIZE] # last.log[1]

\* C25: for a stack s of Variables that are Top, Bottom or finite sets,
\* meet(s, s) and join(s, s) equal s and meet(s, empty stack) equals the
\* empty stack, under the equality of VariableStack
C25_StackMeetJoinIdempotent ==
  [][/\ (StackCalled("meet") /\ last'.log[1] = self_stack) =>
          stack_eq(last'.ret, self_stack)
     /\ (StackCalled("join") /\ last'.log[1] = self_stack) =>
          stack_eq(last'.ret, self_stack)
     /\ (StackCalled("meet") /\ last'.log[1] = VariableStack(<<>>)) =>
          stack_eq(last'.ret, VariableStack(<<>>))
    ]_vars

(***************************************************************************)
(* The claims about the lattice classes and the arithmetic, checked under  *)
(* SpecValue.                                                              *)
(***************************************************************************)
\* C26: for the elements of IntLatticeElement and of SubsetLatticeElement,
\* Variable value sets included, meet and join are idempotent, commutative
\* and associative, absorb each other, and have Top and Bottom as their
\* bounds: meet(Top, a) = a, meet(Bottom, a) = Bottom, join(Bottom, a) = a,
\* join(Top, a) = Top
C26_LatticeLaws ==
  last.op \in {"meet", "join"} =>
    LET cls == last.log[1]
        a == last.log[2]
        b == last.log[3]
        f(x, y) == IF last.op = "meet" THEN meet(cls, x, y)
                   ELSE join(cls, x, y)
        g(x, y) == IF last.op = "meet" THEN join(cls, x, y)
                   ELSE meet(cls, x, y)
        unit == IF last.op = "meet" THEN Top ELSE Bottom
        zero == IF last.op = "meet" THEN Bottom ELSE Top
    IN /\ a = b => last.ret = a
       /\ last.ret = f(b, a)
       /\ \A c \in Elements(cls) : f(last.ret, c) = f(a, f(b, c))
       /\ g(a, last.ret) = a
       /\ a = unit => last.ret = b
       /\ a = zero => last.ret = zero

\* the meet of two different integers, which is Bottom
C26_Witness ==
  /\ last.op = "meet"
  /\ last.log = <<"IntLatticeElement", Fin({1}), Fin({2})>>
  /\ is_bottom(last.ret)

\* C27: cartesian_map(f, [e1..en]) returns Top if some ei is Top, and
\* otherwise the set of f(x1..xn) over the xi in ei, which is the empty set
\* when some ei is empty
C27_CartesianMapIsImage ==
  last.op = "cartesian_map" =>
    LET opname == last.log[1]
        elements == last.log[2]
        n == Len(elements)
        members == UNION {elements[i].elems : i \in 1..n}
        tuples == {t \in [1..n -> members] :
                     \A i \in 1..n : t[i] \in elements[i].elems}
    IN /\ last.raised = "none"
       /\ last.ret = IF \E i \in 1..n : is_top(elements[i]) THEN Top
                     ELSE Fin({arith(opname, t) : t \in tuples})

\* C28: after an arithmetic operation whose result set has more than
\* widen_threshold members the resulting Variable is Top: a result that is
\* not Top has at most widen_threshold members
C28_LargeResultsAreWidened ==
  (last.op = "arith_op" /\ last.raised = "none") =>
    (is_top(last.ret) \/ Cardinality(last.ret.elems) <= widen_threshold)

\* C29: the members of a Variable's value set are in 0..CARDINALITY - 1
\* after construction, after an assignment to values, and after arith_op,
\* meet and join; ADD on {l} and {r} gives {(l + r) mod CARDINALITY}, and
\* the negative results of SUB and NOT are wrapped into the range
C29_MembersInRange ==
  LET InRange(e) == is_top(e) \/ e.elems \subseteq 0..(CARDINALITY - 1)
      wrapped(v) == IF v < 0 THEN v + CARDINALITY
                    ELSE IF v >= CARDINALITY THEN v - CARDINALITY
                    ELSE v
      only(e) == CHOOSE v \in e.elems : TRUE
      consts(args) == \A i \in 1..Len(args) : ssle_len(args[i]) = 1
  IN /\ last.op = "Variable" => InRange(last.ret.value)
     /\ (last.op = "values" /\ last.raised = "none") => InRange(last.ret)
     /\ (last.op \in {"meet", "join"} /\ last.log[1] = "Variable") =>
          InRange(last.ret)
     /\ (last.op = "arith_op" /\ last.raised = "none") =>
          /\ InRange(last.ret)
          /\ (last.log[1] = "ADD" /\ consts(last.log[2])) =>
               last.ret = Fin({wrapped(only(last.log[2][1])
                                         + only(last.log[2][2]))})
          /\ (last.log[1] = "SUB" /\ consts(last.log[2])) =>
               last.ret = Fin({wrapped(only(last.log[2][1])
                                         - only(last.log[2][2]))})
          /\ (last.log[1] = "NOT" /\ consts(last.log[2])) =>
               last.ret = Fin({CARDINALITY - 1 - only(last.log[2][1])})

\* SUB on {0} and {1}, whose result -1 is wrapped
C29_Witness ==
  /\ last.op = "arith_op"
  /\ last.log = <<"SUB", <<Fin({0}), Fin({1})>>>>
  /\ last.ret = Fin({CARDINALITY - 1})

\* C30: for a word v, SIGNEXTEND(b, v) modulo CARDINALITY is v when
\* b >= SIZE - 1; for 0 <= b <= SIZE - 2 its low 8(b + 1) bits are those of
\* v and every higher bit of the word is bit 8(b + 1) - 1 of v
C30_SignExtend ==
  (/\ last.op = "arith_op"
   /\ last.log[1] = "SIGNEXTEND"
   /\ \A i \in 1..2 : ssle_len(last.log[2][i]) = 1) =>
    LET b == CHOOSE x \in last.log[2][1].elems : TRUE
        v == CHOOSE x \in last.log[2][2].elems : TRUE
        pos == 8 * (b + 1)
        sign == (v \div 2 ^ (pos - 1)) % 2
    IN /\ last.raised = "none"
       /\ b >= SIZE - 1 => last.ret = Fin({v})
       /\ b <= SIZE - 2 =>
            \E r \in 0..(CARDINALITY - 1) :
              /\ last.ret = Fin({r})
              /\ r % 2 ^ pos = v % 2 ^ pos
              /\ r \div 2 ^ pos =
                   IF sign = 1 THEN 2 ^ (SIZE * 8 - pos) - 1 ELSE 0

\* the two words of a call of arith_op on two constants
ConstArgs(opnames) ==
  /\ last.op = "arith_op"
  /\ last.log[1] \in opnames
  /\ Len(last.log[2]) = 2
  /\ \A i \in 1..2 : ssle_len(last.log[2][i]) = 1

\* C31: DIV, MOD, SDIV and SMOD return 0 and do not fail when the divisor
\* or modulus is 0; for another divisor SDIV and SMOD read each operand v
\* as v - CARDINALITY when its top bit is set, SDIV is the quotient
\* truncated toward zero and SMOD the remainder with the sign of the
\* dividend, and the result modulo CARDINALITY encodes that signed value
C31_DivisionIsTotalAndSigned ==
  ConstArgs({"DIV", "MOD", "SDIV", "SMOD"}) =>
    LET l == CHOOSE x \in last.log[2][1].elems : TRUE
        r == CHOOSE x \in last.log[2][2].elems : TRUE
        signed(v) == IF v >= CARDINALITY \div 2 THEN v - CARDINALITY ELSE v
        abs(v) == IF v < 0 THEN -v ELSE v
        sgn(v) == IF v < 0 THEN -1 ELSE IF v > 0 THEN 1 ELSE 0
        \* the rest has the sign of the dividend and is less than the
        \* divisor
        rest(m) == /\ abs(m) < abs(signed(r))
                   /\ m = 0 \/ sgn(m) = sgn(signed(l))
    IN /\ last.raised = "none"
       /\ r = 0 => last.ret = Fin({0})
       /\ (r # 0 /\ last.log[1] = "SDIV") =>
            \E e \in 0..(CARDINALITY - 1) :
              /\ last.ret = Fin({e})
              /\ \/ rest(signed(l) - e * signed(r))
                 \/ e > 0 /\ rest(signed(l) - (e - CARDINALITY) * signed(r))
       /\ (r # 0 /\ last.log[1] = "SMOD") =>
            \E e \in 0..(CARDINALITY - 1) :
              /\ last.ret = Fin({e})
              /\ \E m \in {e, e - CARDINALITY} :
                   /\ rest(m)
                   /\ (signed(l) - m) % abs(signed(r)) = 0

\* SDIV of -2 by 2, which is -1
C31_Witness ==
  /\ ConstArgs({"SDIV"})
  /\ last.log[2] = <<Fin({CARDINALITY - 2}), Fin({2})>>
  /\ last.ret = Fin({CARDINALITY - 1})

\* C32: for a word v and 0 <= b <= SIZE - 1, BYTE(b, v) is the byte of v at
\* index b counted from the most significant one; for every b >= 0 the
\* operation returns a value in 0..255 and does not fail
C32_ByteFromTheTop ==
  ConstArgs({"BYTE"}) =>
    LET b == CHOOSE x \in last.log[2][1].elems : TRUE
        v == CHOOSE x \in last.log[2][2].elems : TRUE
    IN /\ last.raised = "none"
       /\ \E e \in 0..255 : last.ret = Fin({e})
       /\ b <= SIZE - 1 =>
            last.ret = Fin({(v \div 2 ^ (8 * (SIZE - 1 - b))) % 256})

\* C33: arith_op fails with OpArityMismatch whenever the number of
\* argument Variables is not the arity of the opcode
C33_ArityMismatchIsReported ==
  (last.op = "arith_op" /\ Len(last.log[2]) # arity(last.log[1])) =>
    last.raised = "OpArityMismatch"

\* C40: arith_op on argument Variables of the right arity, one of which at
\* least is Top, returns a Top Variable and does not fail
C40_TopArgumentGivesTop ==
  (/\ last.op = "arith_op"
   /\ Len(last.log[2]) = arity(last.log[1])
   /\ \E i \in 1..Len(last.log[2]) : is_top(last.log[2][i])) =>
    (last.raised = "none" /\ is_top(last.ret))

\* C37: for every block b of the graph and every op of b.tac_ops, op.block
\* is b: after the conversion, after a JUMP or JUMPI is replaced by a THROW
\* or THROWI, and in the copies made by clone_ambiguous_jump_blocks and
\* merge_duplicate_blocks
C37_OpsBelongToTheirBlock ==
  \A b \in ToSet(blocks) :
    \A i \in DOMAIN blk[b].tac_ops : blk[b].tac_ops[i].block = b

\* a block made by copying another whose last op was replaced by a throw
C37_Witness ==
  \E b \in ToSet(blocks) :
    /\ b > Len(InitEntries)
    /\ \E i \in DOMAIN blk[b].tac_ops :
         blk[b].tac_ops[i].opcode \in {"THROW", "THROWI"}

\* C35: meet(a, b) and join(a, b) pair the slots from the top down, a Bottom
\* standing for each slot the shorter stack lacks; join has the length of
\* the longer stack and each slot holds the union of the pair; meet holds
\* the intersections of the pairs without the Bottoms at its deep end, and
\* keeps a Bottom that lies above a slot that is not Bottom
C35_MeetJoinPairFromTheTop ==
  [][(StackCalled("meet") \/ StackCalled("join")) =>
       LET a == self_stack.value
           b == last'.log[1].value
           r == last'.ret.value
           longer == IF Len(a) > Len(b) THEN Len(a) ELSE Len(b)
           \* the value t places below the top
           at(s, t) == IF t < Len(s) THEN s[Len(s) - t].value ELSE Bottom
           union(t) ==
             IF is_top(at(a, t)) \/ is_top(at(b, t)) THEN Top
             ELSE Fin(at(a, t).elems \cup at(b, t).elems)
           inter(t) ==
             IF is_top(at(a, t)) THEN at(b, t)
             ELSE IF is_top(at(b, t)) THEN at(a, t)
             ELSE Fin(at(a, t).elems \cap at(b, t).elems)
           live == {t \in 0..(longer - 1) : ~is_bottom(inter(t))}
       IN IF StackCalled("join")
          THEN /\ Len(r) = longer
               /\ \A t \in 0..(longer - 1) : at(r, t) = union(t)
          ELSE /\ \A t \in live : t < Len(r)
               /\ Len(r) > 0 => (Len(r) - 1) \in live
               /\ \A t \in 0..(Len(r) - 1) : at(r, t) = inter(t)
    ]_vars

\* a meet of stacks of different lengths whose deepest pair met in Bottom
\* and was dropped, and whose top pair met in Bottom and was kept
C35_Witness ==
  /\ last.op = "meet"
  /\ Len(self_stack.value) > Len(last.log[1].value)
  /\ Len(last.ret.value) >= 2
  /\ Len(last.ret.value) < Len(self_stack.value)
  /\ is_bottom(last.ret.value[Len(last.ret.value)].value)

\* C38: when no push is discarded at MAX_SIZE, the number of Variables of
\* the stack minus its empty_pops grows by one on push and on dup(n), falls
\* by one on pop and is unchanged by swap(n), for every n >= 1
C38_NetHeightFollowsTheOps ==
  [][Len(self_stack.value) < MAX_SIZE =>
       LET net(s) == Len(s.value) - s.empty_pops
       IN /\ (StackCalled("push") \/ StackCalled("dup")) =>
               net(self_stack') = net(self_stack) + 1
          /\ StackCalled("pop") => net(self_stack') = net(self_stack) - 1
          /\ StackCalled("swap") => net(self_stack') = net(self_stack)
    ]_vars

\* C36: the conversion of a block emits exactly one TAC op for each EVM op
\* that is not POP, DUPn or SWAPn, in the order of the EVM ops and with the
\* pc of its EVM op; each op emitted for an EVM op that pushes one word has
\* a new Variable as its lhs, named V0, V1, ... in the order of emission
\* from V0 in every block, so no two lhs of a block have the same name
C36_OneTacOpPerEvmOp ==
  LET emitting(op) == op.opcode \notin {"POP", "DUP1", "SWAP1"}
      emitted == SelectSeq(evm_ops, emitting)
      pushing(op) == opcode_push[op.opcode] = 1
      \* the ops before the i-th emitted one that push one word
      k(i) == Len(SelectSeq(SubSeq(emitted, 1, i - 1), pushing))
      named(i) == /\ self_ops[i].lhs.cls = "Variable"
                  /\ self_ops[i].lhs.name = "V" \o ToString(k(i))
                  /\ self_ops[i].lhs.id = k(i)
  IN /\ emitted # <<>> => Len(self_ops) = Len(emitted)
     /\ (emitted = <<>> /\ ~converted) => self_ops = <<>>
     /\ \A i \in DOMAIN emitted :
          /\ self_ops[i].pc = emitted[i].pc
          /\ self_ops[i].opcode = (IF is_push(emitted[i].opcode) THEN "CONST"
                                   ELSE emitted[i].opcode)
          /\ pushing(emitted[i]) => named(i)
          /\ ~pushing(emitted[i]) => self_ops[i].lhs.cls # "Variable"
     /\ \A i, j \in DOMAIN emitted :
          (pushing(emitted[i]) /\ pushing(emitted[j]) /\ i # j) =>
            self_ops[i].lhs.name # self_ops[j].lhs.name

\* a converted block of three EVM ops, of which one emits nothing and the
\* other two push one word each: their lhs are V0 and V1
C36_Witness ==
  /\ converted
  /\ Len(evm_ops) = 3
  /\ Len(self_ops) = 2
  /\ self_ops[1].lhs.name = "V0"
  /\ self_ops[2].lhs.name = "V1"
  /\ self_ops[2].pc = evm_ops[3].pc

\* the blocks met from block b of graph G by stepping to the predecessor of
\* a block that has exactly one, as the least set closed under the step
RECURSIVE BackFrom(_, _)
BackFrom(G, S) ==
  LET T == S \cup UNION {G.blk[x].preds : x \in {y \in S :
                           Cardinality(G.blk[y].preds) = 1}}
  IN IF T = S THEN S ELSE BackFrom(G, T)

\* the walk back from b comes round to a block it has met: every block met
\* has exactly one predecessor
WalkCycles(G, b) ==
  \A x \in BackFrom(G, {b}) : Cardinality(G.blk[x].preds) = 1

\* no chain is to be split for b: the walk back from b cycles, or it ends at
\* a block that has no predecessor or has a predecessor met on the walk
Unsplittable(G, b) ==
  \/ WalkCycles(G, b)
  \/ \E x \in BackFrom(G, {b}) :
       /\ Cardinality(G.blk[x].preds) # 1
       /\ \/ G.blk[x].preds = {}
          \/ G.blk[x].preds \cap BackFrom(G, {b}) # {}

\* the graph in which the i-th split of the call was decided
GraphBeforeSplit(i) ==
  IF i = 1 THEN Graph
  ELSE [Graph EXCEPT !.blocks = last'.log[i - 1].blocks,
                     !.blk = last'.log[i - 1].blk]

\* C34: clone_ambiguous_jump_blocks splits no chain for a block whose walk
\* back revisits a block of the chain, or ends at a block that has no
\* predecessor or has a predecessor in the chain; when every block it would
\* split on is such a block the blocks and edges of the graph are unchanged
C34_NoSplitOnCycleOrOpenChain ==
  [][CloneCall =>
       /\ \A i \in DOMAIN last'.log :
            ~Unsplittable(GraphBeforeSplit(i), last'.log[i].block)
       /\ (\A b \in ToSet(blocks) :
             splits_on(Graph, b) => Unsplittable(Graph, b))
            => (blocks' = blocks /\ blk' = blk /\ root' = root)]_vars

\* a call that split nothing, on a graph with a block whose destination
\* calls for a split and whose walk back goes round a cycle of two blocks or
\* more
C34_Witness ==
  /\ last.op = "clone_ambiguous_jump_blocks" /\ last.log = <<>>
  /\ \E b \in ToSet(blocks) :
       /\ splits_on(Graph, b)
       /\ WalkCycles(Graph, b)
       /\ Cardinality(BackFrom(Graph, {b})) > 1

\* C39: a call of clone_ambiguous_jump_blocks or of merge_duplicate_blocks
\* that has begun comes to its end, whatever cycles, self-loops and blocks
\* at the same entry pc the graph has (a call that needs more block
\* identities than BlockIds holds is cut)
C39_LoopsTerminate ==
  (frame.op \in {"clone", "merge"}) ~> (frame.op \in {"returned", "cut"})

\* a call of clone_ambiguous_jump_blocks that split a chain has returned, and
\* the graph has a block with an edge to itself and two blocks at one entry
\* pc
C39_Witness ==
  /\ frame.op = "returned"
  /\ frame.skip # {}
  /\ \E a \in ToSet(blocks) : a \in blk[a].succs
  /\ \E a \in ToSet(blocks), b \in ToSet(blocks) :
       a # b /\ blk[a].entry = blk[b].entry

====
